---- MODULE Spec2Model ----
(***************************************************************************)
(* PivotPoint-Podcast: the content pipeline (collector, relevance filter,  *)
(* enhancer with its cache, category selector, script composer, speech     *)
(* synthesizer with chunk reassembly) and the token budgeting it uses.     *)
(* Each component is a state machine of its own over the variables below;  *)
(* a component's specification keeps the other components' variables at    *)
(* their initial value.                                                    *)
(***************************************************************************)
EXTENDS Integers, Sequences, FiniteSets, TLC

VARIABLES
    \* --- Config / ModelManager / ArticleAnalyzer budget fields
    SELECTED_MODEL,     \* Config.SELECTED_MODEL
    manager,            \* ModelManager: model, max_input_tokens, max_output_tokens
    analyzer,           \* ArticleAnalyzer: the three limits fixed by __init__
    limits,             \* last result of _calculate_dynamic_limits
    \* --- search configuration and NewsCollector
    search_modes,       \* parameters.json search_modes: which modes are enabled
    filtering_settings, \* NewsCollector.filtering_settings
    collect,            \* collect_daily_news: queries issued, merged list, result
    \* --- relevance filter
    relevance_keywords, \* search_configs relevance-keywords
    MAX_ARTICLES,       \* Config.MAX_ARTICLES
    filter_run,         \* filter_relevant_articles: its input and its result
    \* --- ArticleEnhancer and its cache
    now,                \* datetime.now(), in hours
    cache_rows,         \* table article_cache: rows (url_hash, url, summary, fetched_at)
    enhance_run,        \* enhance_articles: input, loop position, output, calls made
    last_pass,          \* what the latest pass over an article with a URL yielded
    \* --- ArticleAnalyzer._extract_selected_articles
    select_run,         \* the article list, the model response, the selection
    \* --- the text splitters of the two speech strategies
    split_run,          \* the text, the splitter applied, the chunks returned
    \* --- AudioGenerator / ElevenLabsTTS: synthesis in chunks and reassembly
    files,              \* the output file and the temporary chunk files
    audio_run,          \* the synthesis call: its inputs, what it returned
    \* --- ContentGenerator and the prompt loader
    prompt_files,       \* the prompts directory: what each prompt file holds
    prompt_cache,       \* PromptLoader._cache
    script_run,         \* create_podcast_script: its inputs, what it returned
    \* --- ArticleAnalyzer.analyze_articles_by_category
    analyze_run,        \* the call: its inputs, the analysis and selection returned
    \* --- main
    main_run,           \* the run: arguments, position, stage results, calls made
    \* --- utils/helpers.py
    clean_run           \* clean_text_for_audio: the text given, the text returned

budgetVars == <<SELECTED_MODEL, manager, analyzer, limits>>
collectVars == <<search_modes, filtering_settings, collect>>
filterVars == <<relevance_keywords, MAX_ARTICLES, filter_run>>
enhanceVars == <<now, cache_rows, enhance_run, last_pass>>
selectVars == <<select_run>>
splitVars == <<split_run>>
audioVars == <<files, audio_run>>
scriptVars == <<prompt_files, prompt_cache, script_run>>
analyzeVars == <<analyze_run>>
mainVars == <<main_run>>
cleanVars == <<clean_run>>

\* what a step of one component leaves alone
notBudget == <<collectVars, filterVars, enhanceVars, selectVars, splitVars, audioVars, scriptVars, analyzeVars, mainVars, cleanVars>>
notCollect == <<budgetVars, relevance_keywords, MAX_ARTICLES, filter_run, enhanceVars, selectVars, splitVars, audioVars, scriptVars, analyzeVars, mainVars, cleanVars>>
notFilter == <<budgetVars, search_modes, filtering_settings, collect, enhanceVars, selectVars, splitVars, audioVars, scriptVars, analyzeVars, mainVars, cleanVars>>
notEnhance == <<SELECTED_MODEL, analyzer, limits, collectVars, filterVars, selectVars, splitVars, audioVars, scriptVars, analyzeVars, mainVars, cleanVars>>
notSelect == <<budgetVars, collectVars, filterVars, enhanceVars, splitVars, audioVars, scriptVars, analyzeVars, mainVars, cleanVars>>
notAudio == <<budgetVars, collectVars, filterVars, enhanceVars, selectVars, splitVars, scriptVars, analyzeVars, mainVars, cleanVars>>
notScript == <<SELECTED_MODEL, analyzer, limits, collectVars, filterVars, enhanceVars, selectVars,
               splitVars, audioVars, analyzeVars, mainVars, cleanVars>>
notAnalyze == <<collectVars, filterVars, enhanceVars, selectVars, splitVars, audioVars, scriptVars, mainVars, cleanVars>>
notMain == <<filtering_settings, collect, filterVars, enhanceVars, selectVars, splitVars, audio_run, prompt_files, script_run, analyzeVars, cleanVars>>
notClean == <<budgetVars, collectVars, filterVars, enhanceVars, selectVars, splitVars, audioVars, scriptVars, analyzeVars, mainVars>>
notSplit == <<budgetVars, collectVars, filterVars, enhanceVars, selectVars, audioVars, scriptVars, analyzeVars, mainVars, cleanVars>>

vars == <<SELECTED_MODEL, manager, analyzer, limits,
          search_modes, filtering_settings, collect,
          relevance_keywords, MAX_ARTICLES, filter_run,
          now, cache_rows, enhance_run, last_pass, select_run, split_run,
          files, audio_run, prompt_files, prompt_cache, script_run,
          analyze_run, main_run, clean_run>>

None == "none"

Min(a, b) == IF a <= b THEN a ELSE b
Max(a, b) == IF a >= b THEN a ELSE b

\* ------------------------------------------------------------------------
\* utils/model_manager.py, config/settings.py, modules/article_analyzer.py:
\* backend profiles and the message/completion budget
\* ------------------------------------------------------------------------

Models == {"openai", "gemini", "gemini-flash"}

\* ModelManager._configure_for_model: the profile of a model name
configure_for_model(m) ==
    IF m = "gemini"
    THEN [model |-> m, max_input_tokens |-> 1048576, max_output_tokens |-> 65536]
    ELSE IF m = "gemini-flash"
    THEN [model |-> m, max_input_tokens |-> 1048576, max_output_tokens |-> 8192]
    ELSE [model |-> m, max_input_tokens |-> 8192, max_output_tokens |-> 4096]

\* ModelManager._setup_client: reconfigure only when the selected model changed
setup_client(mgr, selected) ==
    IF mgr.model = selected THEN mgr ELSE configure_for_model(selected)

\* ModelManager.should_apply_token_limits, on a manager that was set up
should_apply_token_limits(mgr) == mgr.model \notin {"gemini", "gemini-flash"}

\* ModelManager.count_tokens_estimate
count_tokens_estimate(mgr, text) ==
    IF mgr.model \in {"gemini", "gemini-flash"} THEN text.len \div 3 ELSE text.len \div 4

\* ModelManager.create_chat_completion: the max_tokens sent to the backend for
\* the max_tokens asked by the caller (a number; the callers modelled here
\* always pass one)
chat_max_tokens(mgr, max_tokens) ==
    IF mgr.model = "gemini" /\ max_tokens < 8000
    THEN Min(mgr.max_output_tokens, 12000)
    ELSE IF mgr.model = "gemini-flash" /\ max_tokens < 4000
    THEN Min(mgr.max_output_tokens, 6000)
    ELSE max_tokens

\* ArticleAnalyzer._count_tokens. A text is known by its length in characters
\* and its tiktoken count; the tokenizer may fail on it (tokfail).
count_tokens(mgr, text) ==
    IF should_apply_token_limits(mgr)
    THEN IF text.tokfail THEN text.len \div 4 ELSE text.tok
    ELSE count_tokens_estimate(mgr, text)

\* ArticleAnalyzer.__init__: the limits of the profile active at construction
analyzer_init(mgr) ==
    IF should_apply_token_limits(mgr)
    THEN [built |-> mgr.model, max_context_tokens |-> 8192,
          max_message_tokens |-> 6000, min_completion_tokens |-> 500]
    ELSE [built |-> mgr.model, max_context_tokens |-> mgr.max_input_tokens,
          max_message_tokens |-> Min(500000, mgr.max_input_tokens \div 2),
          min_completion_tokens |-> 8000]

\* A message budget that takes the whole context window, forgetting the
\* completion reserve and the configured cap.
calculate_dynamic_limits_no_reserve(self, mgr, system_prompt, user_prompt_base) ==
    LET completion0 == IF should_apply_token_limits(mgr)
                       THEN Min(2000, self.max_context_tokens \div 3)
                       ELSE Min(self.min_completion_tokens, self.max_context_tokens \div 4)
        max_message == self.max_context_tokens
        completion == IF max_message + completion0 > self.max_context_tokens
                      THEN Max(self.min_completion_tokens,
                               self.max_context_tokens - max_message)
                      ELSE completion0
    IN  [max_message_tokens |-> max_message, completion_tokens |-> completion,
         system_tokens |-> count_tokens(mgr, system_prompt),
         base_user_tokens |-> count_tokens(mgr, user_prompt_base),
         profile |-> mgr.model]

\* ArticleAnalyzer._calculate_dynamic_limits
calculate_dynamic_limits(self, mgr, system_prompt, user_prompt_base) ==
    LET system_tokens == count_tokens(mgr, system_prompt)
        base_user_tokens == count_tokens(mgr, user_prompt_base)
        completion0 == IF should_apply_token_limits(mgr)
                       THEN Min(2000, self.max_context_tokens \div 3)
                       ELSE Min(self.min_completion_tokens, self.max_context_tokens \div 4)
        available_for_messages == self.max_context_tokens - completion0
        max_message == Min(self.max_message_tokens, available_for_messages)
        total_estimated == max_message + completion0
        completion == IF total_estimated > self.max_context_tokens
                      THEN Max(self.min_completion_tokens,
                               self.max_context_tokens - max_message)
                      ELSE completion0
    IN  [max_message_tokens |-> max_message, completion_tokens |-> completion,
         system_tokens |-> system_tokens, base_user_tokens |-> base_user_tokens,
         profile |-> mgr.model]

\* Prompts the budget is computed for: length, tiktoken count, tokenizer failure
PromptTexts ==
    { [len |-> 0, tok |-> 0, tokfail |-> FALSE],
      [len |-> 120, tok |-> 31, tokfail |-> FALSE],
      [len |-> 120, tok |-> 31, tokfail |-> TRUE],
      [len |-> 40000, tok |-> 9000, tokfail |-> FALSE] }

\* no budget computed yet
NoLimits ==
    [max_message_tokens |-> 0, completion_tokens |-> 0, system_tokens |-> 0,
     base_user_tokens |-> 0, profile |-> None]

\* ModelManager.__init__: nothing configured before the first use
NoManager == [model |-> None, max_input_tokens |-> 0, max_output_tokens |-> 0]

\* no ArticleAnalyzer constructed yet
NoAnalyzer == [built |-> None, max_context_tokens |-> 0,
               max_message_tokens |-> 0, min_completion_tokens |-> 0]

\* Config.set_selected_model
set_selected_model(m) ==
    /\ SELECTED_MODEL' = m
    /\ UNCHANGED <<manager, analyzer, limits>>
    /\ UNCHANGED notBudget

\* ArticleAnalyzer() : __init__ asks the manager, which sets its client up first
NewArticleAnalyzer ==
    LET mgr == setup_client(manager, SELECTED_MODEL)
    IN  /\ manager' = mgr
        /\ analyzer' = analyzer_init(mgr)
        /\ limits' = NoLimits
        /\ UNCHANGED SELECTED_MODEL
        /\ UNCHANGED notBudget

\* a call of _calculate_dynamic_limits on the constructed analyzer
CalculateDynamicLimits(system_prompt, user_prompt_base) ==
    /\ analyzer.built # None
    /\ LET mgr == setup_client(manager, SELECTED_MODEL)
       IN  /\ manager' = mgr
           /\ limits' = calculate_dynamic_limits(analyzer, mgr, system_prompt,
                                                 user_prompt_base)
    /\ UNCHANGED <<SELECTED_MODEL, analyzer>>
    /\ UNCHANGED notBudget

BudgetNext ==
    \/ \E m \in Models : set_selected_model(m)
    \/ NewArticleAnalyzer
    \/ \E s \in PromptTexts, u \in PromptTexts : CalculateDynamicLimits(s, u)

\* ------------------------------------------------------------------------
\* utils/search_config_loader.py, modules/news_collector.py: the collector
\* ------------------------------------------------------------------------

\* search_configs: the basic keyword list and the Google-dork query list
BasicKeywords == <<"k1">>
GoogleDorks == <<"d1">>

\* NewsCollector.collect_daily_news: category_names
category_names ==
    <<"APTs & Cyber-Espionage", "Arrests & Cybercrime", "Breaches & Incidents",
      "Cybersecurity IPOs", "Cybersecurity Funding", "Cybersecurity M&A">>

\* f"Query_{i+1}" for the i-th query (counted from 1 here)
QueryLabel == <<"Query_1", "Query_2">>

\* SearchConfigLoader.get_active_search_queries
get_active_search_queries(modes) ==
    (IF modes.basic_keywords THEN BasicKeywords ELSE <<>>)
        \o (IF modes.google_dorks THEN GoogleDorks ELSE <<>>)

\* SearchConfigLoader.is_search_mode_enabled
is_search_mode_enabled(modes, mode) ==
    IF mode = "google_dorks" THEN modes.google_dorks ELSE modes.basic_keywords

\* str.strip on the titles and snippets of the search results
Strip(s) == IF s = " " THEN "" ELSE s

\* news items the search backend may return (link may be missing: "")
RawNews ==
    { [link |-> "u1", title |-> "A", snippet |-> "s"],
      [link |-> "u1", title |-> "B", snippet |-> "s"],
      [link |-> "u2", title |-> "A", snippet |-> "s"],
      [link |-> "u2", title |-> " ", snippet |-> "s"],
      [link |-> "",   title |-> "C", snippet |-> "s"] }

\* most results one search request returns
MaxResults == 2

RECURSIVE SeqsUpTo(_, _)
SeqsUpTo(S, n) ==
    IF n = 0 THEN {<<>>}
    ELSE LET shorter == SeqsUpTo(S, n - 1)
         IN  shorter \cup {Append(q, x) : q \in {r \in shorter : Len(r) = n - 1}, x \in S}

\* what one search request may come back with: a failure or a news list
Responses ==
    {[ok |-> FALSE, news |-> <<>>]}
        \cup {[ok |-> TRUE, news |-> n] : n \in SeqsUpTo(RawNews, MaxResults)}

\* NewsCollector.search_news: clean the results, keep those with title and snippet;
\* any failure of the request gives the empty list
search_news(query, response) ==
    IF ~response.ok THEN <<>>
    ELSE LET cleaned == [k \in 1..Len(response.news) |->
                            [title |-> Strip(response.news[k].title),
                             snippet |-> Strip(response.news[k].snippet),
                             url |-> response.news[k].link,
                             query |-> query]]
         IN  SelectSeq(cleaned, LAMBDA a : a.title # "" /\ a.snippet # "")

\* a collection loop that gives up at the first query whose search came back empty
RECURSIVE collect_queries_until_empty(_, _, _, _, _)
collect_queries_until_empty(queries, responses, is_google_dorks, max_per_category, i) ==
    IF i > Len(queries) THEN <<>>
    ELSE
      LET query == queries[i]
          articles == search_news(query, responses[query])
          category_name == IF is_google_dorks /\ i <= Len(category_names)
                           THEN category_names[i] ELSE QueryLabel[i]
          limited == IF is_google_dorks /\ articles # <<>>
                     THEN SubSeq(articles, 1, Min(Len(articles), max_per_category))
                     ELSE articles
          tagged == [k \in 1..Len(limited) |->
                        [title |-> limited[k].title, snippet |-> limited[k].snippet,
                         url |-> limited[k].url, query |-> limited[k].query,
                         search_query |-> query, category |-> category_name,
                         search_mode |-> IF is_google_dorks THEN "google_dorks"
                                         ELSE "basic_keywords"]]
      IN  IF articles = <<>> THEN <<>>
          ELSE tagged \o collect_queries_until_empty(queries, responses, is_google_dorks,
                                                     max_per_category, i + 1)

\* collect_daily_news, the loop over the queries from the i-th on: search, name the
\* category, cap per category in Google-dorks mode, tag, extend all_articles
RECURSIVE collect_queries(_, _, _, _, _)
collect_queries(queries, responses, is_google_dorks, max_per_category, i) ==
    IF i > Len(queries) THEN <<>>
    ELSE
      LET query == queries[i]
          articles == search_news(query, responses[query])
          category_name == IF is_google_dorks /\ i <= Len(category_names)
                           THEN category_names[i] ELSE QueryLabel[i]
          limited == IF is_google_dorks /\ articles # <<>>
                     THEN SubSeq(articles, 1, Min(Len(articles), max_per_category))
                     ELSE articles
          tagged == [k \in 1..Len(limited) |->
                        [title |-> limited[k].title, snippet |-> limited[k].snippet,
                         url |-> limited[k].url, query |-> limited[k].query,
                         search_query |-> query, category |-> category_name,
                         search_mode |-> IF is_google_dorks THEN "google_dorks"
                                         ELSE "basic_keywords"]]
      IN  tagged \o collect_queries(queries, responses, is_google_dorks,
                                    max_per_category, i + 1)

\* duplicate removal that lets a later article of a URL replace the earlier one
RECURSIVE remove_duplicates_last_wins(_, _)
remove_duplicates_last_wins(all_articles, seen_urls) ==
    IF all_articles = <<>> THEN <<>>
    ELSE LET article == Head(all_articles)
             later == {k \in 2..Len(all_articles) : all_articles[k].url = article.url}
         IN  IF article.url # "" /\ later = {}
             THEN <<article>> \o remove_duplicates_last_wins(Tail(all_articles), seen_urls)
             ELSE remove_duplicates_last_wins(Tail(all_articles), seen_urls)

\* collect_daily_news: remove duplicates based on URL (seen_urls, unique_articles)
RECURSIVE remove_duplicates(_, _)
remove_duplicates(all_articles, seen_urls) ==
    IF all_articles = <<>> THEN <<>>
    ELSE LET article == Head(all_articles)
         IN  IF article.url # "" /\ article.url \notin seen_urls
             THEN <<article>> \o remove_duplicates(Tail(all_articles),
                                                   seen_urls \cup {article.url})
             ELSE remove_duplicates(Tail(all_articles), seen_urls)

\* filtering.max_articles_per_category values of the configuration
MaxPerCategoryChoices == {1, 2}

\* search_modes of parameters.json: any combination of the two modes
SearchModes == [basic_keywords : BOOLEAN, google_dorks : BOOLEAN]

\* get_active_search_queries / is_search_mode_enabled defaults: basic keywords only
DefaultSearchModes == [basic_keywords |-> TRUE, google_dorks |-> FALSE]

\* collect_daily_news not run yet
NoCollect == [done |-> FALSE, issued |-> <<>>, failed |-> {}, found |-> <<>>,
              all_articles |-> <<>>, unique_articles |-> <<>>]

\* NewsCollector.collect_daily_news, against the responses of the search backend
collect_daily_news(responses) ==
    LET search_queries == get_active_search_queries(search_modes)
        is_google_dorks == is_search_mode_enabled(search_modes, "google_dorks")
        max_per_category == filtering_settings.max_articles_per_category
        all_articles == collect_queries(search_queries, responses, is_google_dorks,
                                        max_per_category, 1)
    IN  /\ ~collect.done
        /\ collect' = [done |-> TRUE,
                       issued |-> search_queries,
                       failed |-> {q \in DOMAIN responses : ~responses[q].ok},
                       found |-> [k \in 1..Len(search_queries) |->
                                     Len(search_news(search_queries[k],
                                                     responses[search_queries[k]]))],
                       all_articles |-> all_articles,
                       unique_articles |-> remove_duplicates(all_articles, {})]
        /\ UNCHANGED <<search_modes, filtering_settings>>
        /\ UNCHANGED notCollect

Range(f) == {f[x] : x \in DOMAIN f}

CollectNext ==
    \E responses \in [Range(get_active_search_queries(search_modes)) -> Responses] :
        collect_daily_news(responses)

\* ------------------------------------------------------------------------
\* modules/news_collector.py: the relevance filter
\* ------------------------------------------------------------------------

\* str.lower, character by character (texts are sequences of characters)
LowerChar(c) == IF c = "A" THEN "a" ELSE IF c = "B" THEN "b" ELSE c
Lower(text) == [k \in 1..Len(text) |-> LowerChar(text[k])]

\* Python's `keyword in text` on strings
Substring(keyword, text) ==
    \E off \in 0..(Len(text) - Len(keyword)) :
        \A k \in 1..Len(keyword) : text[off + k] = keyword[k]

\* filter_relevant_articles: the score of one article
relevance_score(article, keywords) ==
    LET text == Lower(article.title \o <<" ">> \o article.snippet)
    IN  Cardinality({k \in 1..Len(keywords) : Substring(keywords[k], text)})

\* list.sort(key=relevance_score) without reverse=True: ascending
RECURSIVE sort_by_relevance_ascending(_)
sort_by_relevance_ascending(scored) ==
    IF scored = <<>> THEN <<>>
    ELSE LET rest == sort_by_relevance_ascending(SubSeq(scored, 1, Len(scored) - 1))
             a == scored[Len(scored)]
             n == Cardinality({k \in 1..Len(rest) :
                                  rest[k].relevance_score <= a.relevance_score})
         IN  SubSeq(rest, 1, n) \o <<a>> \o SubSeq(rest, n + 1, Len(rest))

\* list.sort(key=relevance_score, reverse=True): descending, and stable (equal
\* scores keep their order), as an insertion of each element behind the elements
\* that do not score less
RECURSIVE sort_by_relevance(_)
sort_by_relevance(scored) ==
    IF scored = <<>> THEN <<>>
    ELSE LET rest == sort_by_relevance(SubSeq(scored, 1, Len(scored) - 1))
             a == scored[Len(scored)]
             n == Cardinality({k \in 1..Len(rest) :
                                  rest[k].relevance_score >= a.relevance_score})
         IN  SubSeq(rest, 1, n) \o <<a>> \o SubSeq(rest, n + 1, Len(rest))

\* NewsCollector.filter_relevant_articles
filter_relevant_articles(articles, keywords, min_score, max_articles) ==
    LET with_score == [k \in 1..Len(articles) |->
                          [title |-> articles[k].title, snippet |-> articles[k].snippet,
                           relevance_score |-> relevance_score(articles[k], keywords)]]
        scored_articles == SelectSeq(with_score,
                                     LAMBDA a : a.relevance_score >= min_score)
        sorted == sort_by_relevance(scored_articles)
    IN  SubSeq(sorted, 1, Min(Len(sorted), max_articles))

\* articles given to the filter: title and snippet
FilterArticles ==
    { [title |-> <<"a">>, snippet |-> <<"b">>],
      [title |-> <<"x">>, snippet |-> <<"y">>],
      [title |-> <<"A">>, snippet |-> <<"x">>],
      [title |-> <<"b">>, snippet |-> <<"x">>] }

\* relevance keyword lists of the configuration (one holds an upper-case keyword)
KeywordLists ==
    { << <<"a">>, <<"b">> >>,
      << <<"a">>, <<"a", " ", "b">> >>,
      << <<"A">>, <<"b">> >> }

\* longest article list given to the filter
MaxFilterArticles == 3

MinScoreChoices == {0, 1, 2}
MaxArticlesChoices == {0, 1, 2, 5}

\* the filter before its call, on any input list
FilterInputs ==
    [done : {FALSE}, input : SeqsUpTo(FilterArticles, MaxFilterArticles),
     output : {<<>>}]

\* a call of filter_relevant_articles on the input list
FilterRelevantArticles ==
    /\ ~filter_run.done
    /\ filter_run' = [filter_run EXCEPT
                        !.done = TRUE,
                        !.output = filter_relevant_articles(
                                        filter_run.input, relevance_keywords,
                                        filtering_settings.min_relevance_score,
                                        MAX_ARTICLES)]
    /\ UNCHANGED <<relevance_keywords, MAX_ARTICLES>>
    /\ UNCHANGED notFilter

FilterNext == FilterRelevantArticles

\* ------------------------------------------------------------------------
\* modules/article_enhancer.py: the enhancer and its SQLite cache
\* ------------------------------------------------------------------------

\* _get_cached_summary: max_age_hours
max_age_hours == 24

\* _generate_gpt_summary: the summary returned when the generative call fails
FailurePlaceholder == "(AI summary generation failed)"

\* ArticleEnhancer._get_url_hash: sha256 of the URL, one digest per URL
get_url_hash(url) == <<"sha256", url>>

\* the rows of a URL in the table, whatever their age
rows_of(rows, url) == {r \in rows : r.url_hash = get_url_hash(url)}

\* the row of a URL as the SELECT of _get_cached_summary sees it: by url_hash,
\* fetched_at later than the cutoff
fresh_rows(rows, url, clock, max_age) ==
    {r \in rows : r.url_hash = get_url_hash(url) /\ r.fetched_at > clock - max_age}

\* a lookup that keeps the rows older than the cutoff
get_cached_summary_older(rows, url, clock, storage_fails) ==
    LET hits == {r \in rows_of(rows, url) : r.fetched_at < clock - max_age_hours}
    IN  IF storage_fails \/ hits = {} THEN None
        ELSE (CHOOSE r \in hits : TRUE).summary

\* a lookup that takes the first row of the URL, whatever its age
get_cached_summary_any_age(rows, url, clock, storage_fails) ==
    LET hits == rows_of(rows, url)
    IN  IF storage_fails \/ hits = {} THEN None
        ELSE (CHOOSE r \in hits : TRUE).summary

\* a lookup that answers from the rows it holds although the storage failed
get_cached_summary_despite_failure(rows, url, clock, storage_fails) ==
    LET hits == fresh_rows(rows, url, clock, max_age_hours)
    IN  IF hits = {} THEN None
        ELSE (CHOOSE r \in hits : TRUE).summary

\* ArticleEnhancer._get_cached_summary: a storage error is a miss
get_cached_summary(rows, url, clock, storage_fails) ==
    LET hits == fresh_rows(rows, url, clock, max_age_hours)
    IN  IF storage_fails \/ hits = {} THEN None
        ELSE (CHOOSE r \in hits : TRUE).summary

\* a put that inserts its row and keeps the earlier rows of the URL
cache_summary_insert_only(rows, url, summary, clock, storage_fails) ==
    IF storage_fails THEN rows
    ELSE rows \cup {[url_hash |-> get_url_hash(url), url |-> url,
                     summary |-> summary, fetched_at |-> clock]}

\* ArticleEnhancer._cache_summary: INSERT OR REPLACE on the primary key url_hash;
\* a storage error is swallowed
cache_summary(rows, url, summary, clock, storage_fails) ==
    IF storage_fails THEN rows
    ELSE {r \in rows : r.url_hash # get_url_hash(url)}
            \cup {[url_hash |-> get_url_hash(url), url |-> url,
                   summary |-> summary, fetched_at |-> clock]}

\* ArticleEnhancer._fetch_article_content by what the request and the two
\* extractors give: the text, or None
fetch_article_content(fetch) ==
    IF fetch \in {"trafilatura", "newspaper"} THEN "text" ELSE None

\* ArticleEnhancer._generate_gpt_summary: the stripped response, or the placeholder
generate_gpt_summary(gen) ==
    IF gen = "error" THEN FailurePlaceholder ELSE gen

\* ArticleEnhancer._calculate_per_article_budget
calculate_per_article_budget(mgr, num_articles) ==
    IF ~should_apply_token_limits(mgr)
    THEN Min(1000, 8000 \div Max(1, num_articles))
    ELSE IF num_articles <= 60 THEN 180
         ELSE Max(120, (10600 - 800) \div num_articles)

\* what the collaborators do during one article: the two storage accesses, the
\* page fetch with its extraction, the generative call (its stripped text)
FetchOutcomes == {"request_failed", "no_text", "trafilatura", "newspaper"}
GenOutcomes == {"error", "S1", "S2", ""}
Outcomes ==
    [lookup_fails : BOOLEAN, fetch : {"request_failed", "no_text"},
     gen : {"error"}, put_fails : {FALSE}]
      \cup [lookup_fails : BOOLEAN, fetch : {"trafilatura", "newspaper"},
            gen : GenOutcomes, put_fails : BOOLEAN]

\* articles given to the enhancer (as the filter hands them over)
A0 == [url |-> "",   snippet |-> "snip0"]
A1 == [url |-> "u1", snippet |-> "snip1"]
A2 == [url |-> "u2", snippet |-> "snip2"]

\* article lists enhance_articles is called on
EnhanceInputs == { <<>>, <<A0>>, <<A1>>, <<A2>>, <<A1, A2>>, <<A1, A1>> }

\* a loop body that leaves an article whose page could not be fetched as it came
enhance_one_unmarked(article, rows, clock, per_article_budget, o) ==
    [article |-> [url |-> article.url, snippet |-> article.snippet, id |-> "uuid",
                  summary |-> None, enhanced |-> None,
                  enhancement_method |-> None, original_snippet |-> None],
     rows |-> rows,
     calls |-> [lookups |-> 1, fetches |-> 1, generations |-> 0, puts |-> 0,
                lookup_failed |-> o.lookup_fails, put_failed |-> FALSE,
                generation_failed |-> FALSE, generated |-> None, stale |-> FALSE]]

\* enhance_articles, the body of its loop for one article: the enhanced article,
\* the cache afterwards, and the calls made
enhance_one(article, rows, clock, per_article_budget, o) ==
    LET url == article.url
        base == [url |-> url, snippet |-> article.snippet, id |-> "uuid",
                 summary |-> None, enhanced |-> None,
                 enhancement_method |-> None, original_snippet |-> None]
        cached_summary == get_cached_summary(rows, url, clock, o.lookup_fails)
        article_content == fetch_article_content(o.fetch)
        gpt_summary == generate_gpt_summary(o.gen)
        nocalls == [lookups |-> 0, fetches |-> 0, generations |-> 0, puts |-> 0,
                    lookup_failed |-> FALSE, put_failed |-> FALSE,
                    generation_failed |-> FALSE, generated |-> None,
                    stale |-> /\ ~o.lookup_fails
                              /\ rows_of(rows, url) # {}
                              /\ fresh_rows(rows, url, clock, max_age_hours) = {}]
    IN  IF url = ""
        THEN [article |-> base, rows |-> rows, calls |-> nocalls]
        ELSE IF cached_summary # None /\ cached_summary # ""
        THEN [article |-> [base EXCEPT !.summary = cached_summary,
                                       !.enhanced = "True",
                                       !.enhancement_method = "cache"],
              rows |-> rows,
              calls |-> [nocalls EXCEPT !.lookups = 1,
                                        !.lookup_failed = o.lookup_fails]]
        ELSE IF article_content = None
        THEN [article |-> [base EXCEPT !.summary = article.snippet,
                                       !.enhanced = "False",
                                       !.enhancement_method = "fetch_failed"],
              rows |-> rows,
              calls |-> [nocalls EXCEPT !.lookups = 1, !.fetches = 1,
                                        !.lookup_failed = o.lookup_fails]]
        ELSE [article |-> [base EXCEPT !.summary = gpt_summary,
                                       !.enhanced = "True",
                                       !.enhancement_method = "gpt_generated",
                                       !.original_snippet = article.snippet],
              rows |-> cache_summary(rows, url, gpt_summary, clock, o.put_fails),
              calls |-> [nocalls EXCEPT !.lookups = 1, !.fetches = 1,
                                        !.generations = 1, !.puts = 1,
                                        !.lookup_failed = o.lookup_fails,
                                        !.put_failed = o.put_fails,
                                        !.generation_failed = (o.gen = "error"),
                                        !.generated = gpt_summary]]

\* no pass over a URL yet
NoPass == [url |-> None, summary |-> None, method |-> None, since |-> 0, put_failed |-> FALSE]

\* no enhance_articles call yet
NoEnhanceRun ==
    [input |-> <<>>, i |-> 1, per_article_budget |-> 0, output |-> <<>>, calls |-> <<>>]

\* enhance_articles is called on a list: the budget is computed, the loop starts
StartEnhance(articles) ==
    /\ enhance_run.i > Len(enhance_run.input)
    /\ LET mgr == setup_client(manager, SELECTED_MODEL)
       IN  /\ manager' = IF articles = <<>> THEN manager ELSE mgr
           /\ enhance_run' =
                 [input |-> articles, i |-> 1,
                  per_article_budget |->
                      IF articles = <<>> THEN 0
                      ELSE calculate_per_article_budget(mgr, Len(articles)),
                  output |-> <<>>, calls |-> <<>>]
    /\ UNCHANGED <<now, cache_rows, last_pass>>
    /\ UNCHANGED notEnhance

\* one round of the loop of enhance_articles: the next article
EnhanceArticle(o) ==
    /\ enhance_run.i <= Len(enhance_run.input)
    /\ LET article == enhance_run.input[enhance_run.i]
           r == enhance_one(article, cache_rows, now,
                            enhance_run.per_article_budget, o)
           hit == {h \in rows_of(cache_rows, article.url) :
                      h.summary = r.article.summary}
       IN  /\ cache_rows' = r.rows
           /\ enhance_run' = [enhance_run EXCEPT
                                 !.i = @ + 1,
                                 !.output = Append(@, r.article),
                                 !.calls = Append(@, r.calls)]
           /\ last_pass' =
                IF article.url = "" THEN last_pass
                ELSE    [url |-> article.url, summary |-> r.article.summary,
                         method |-> r.article.enhancement_method,
                         since |-> IF r.article.enhancement_method = "cache"
                                   THEN (CHOOSE h \in hit : TRUE).fetched_at
                                   ELSE now,
                         put_failed |-> r.calls.put_failed]
    /\ UNCHANGED <<now, manager>>
    /\ UNCHANGED notEnhance

\* hours the clock may advance by between two calls
Ticks == {12, 24}

\* the clock is followed up to this hour
MaxClock == 24

\* time passes
Tick(d) ==
    /\ now + d <= MaxClock
    /\ now' = now + d
    /\ UNCHANGED <<manager, cache_rows, enhance_run, last_pass>>
    /\ UNCHANGED notEnhance

EnhanceNext ==
    \/ \E articles \in EnhanceInputs : StartEnhance(articles)
    \/ \E o \in Outcomes : EnhanceArticle(o)
    \/ \E d \in Ticks : Tick(d)

\* ------------------------------------------------------------------------
\* modules/article_analyzer.py: recovering the selection from the response
\* ------------------------------------------------------------------------

\* A response is a sequence of tokens: words (runs of non-whitespace) and the
\* whitespace characters between them.
Bullet == "bullet"          \* the bullet character U+2022
Marker == "**URL:**"
Space == " "
Newline == "\n"

\* words that start with http:// or https://
HttpUrls == {"https://a", "https://b", "https://c", "https://d"}

\* re.findall(url_pattern_new, text): bullet, space, marker, space, and the
\* word that starts with http(s)://, up to the next whitespace
RECURSIVE findall_new(_, _)
findall_new(text, i) ==
    IF i > Len(text) THEN <<>>
    ELSE IF /\ i + 4 <= Len(text)
            /\ text[i] = Bullet /\ text[i + 1] = Space
            /\ text[i + 2] = Marker /\ text[i + 3] = Space
            /\ text[i + 4] \in HttpUrls
         THEN <<text[i + 4]>> \o findall_new(text, i + 5)
         ELSE findall_new(text, i + 1)

\* re.findall(url_pattern_old, text): marker, space, and the word that starts
\* with http(s)://
RECURSIVE findall_old(_, _)
findall_old(text, i) ==
    IF i > Len(text) THEN <<>>
    ELSE IF /\ i + 2 <= Len(text)
            /\ text[i] = Marker /\ text[i + 1] = Space
            /\ text[i + 2] \in HttpUrls
         THEN <<text[i + 2]>> \o findall_old(text, i + 3)
         ELSE findall_old(text, i + 1)

\* the URLs of both patterns together
selected_urls_both(analysis_text) ==
    findall_new(analysis_text, 1) \o findall_old(analysis_text, 1)

\* _extract_selected_articles: the URLs of the new format, and those of the old
\* format only when the new format finds none
selected_urls(analysis_text) ==
    IF findall_new(analysis_text, 1) # <<>>
    THEN findall_new(analysis_text, 1)
    ELSE findall_old(analysis_text, 1)

\* ArticleAnalyzer._group_articles_by_category: a dict, as the sequence of its
\* items in insertion order
RECURSIVE group_articles_by_category(_)
group_articles_by_category(articles) ==
    IF articles = <<>> THEN <<>>
    ELSE LET categories == group_articles_by_category(SubSeq(articles, 1, Len(articles) - 1))
             article == articles[Len(articles)]
             at == {k \in 1..Len(categories) : categories[k].category = article.category}
         IN  IF at = {}
             THEN Append(categories, [category |-> article.category,
                                      articles |-> <<article>>])
             ELSE [k \in 1..Len(categories) |->
                      IF k \in at
                      THEN [categories[k] EXCEPT !.articles = Append(@, article)]
                      ELSE categories[k]]

\* the articles of the groups, group after group
RECURSIVE flatten(_)
flatten(categories) ==
    IF categories = <<>> THEN <<>>
    ELSE categories[1].articles \o flatten(SubSeq(categories, 2, Len(categories)))

\* _extract_selected_articles: category_order
category_order == category_names

\* _extract_selected_articles.get_category_order: the index in category_order
\* (from 0), unknown categories behind the last
get_category_order(article) ==
    LET at == {k \in 1..Len(category_order) : category_order[k] = article.category}
    IN  IF at = {} THEN Len(category_order) ELSE (CHOOSE k \in at : TRUE) - 1

\* list.sort(key=get_category_order): ascending and stable
RECURSIVE sort_by_category_order(_)
sort_by_category_order(selected) ==
    IF selected = <<>> THEN <<>>
    ELSE LET rest == sort_by_category_order(SubSeq(selected, 1, Len(selected) - 1))
             a == selected[Len(selected)]
             n == Cardinality({k \in 1..Len(rest) :
                                  get_category_order(rest[k]) <= get_category_order(a)})
         IN  SubSeq(rest, 1, n) \o <<a>> \o SubSeq(rest, n + 1, Len(rest))

\* a matching loop that goes by the URLs found: a flagged copy of the article
\* for every time its url was found
RECURSIVE matched_copies_per_occurrence(_, _)
matched_copies_per_occurrence(articles, urls) ==
    IF articles = <<>> THEN <<>>
    ELSE LET article == articles[1]
             rest == matched_copies_per_occurrence(SubSeq(articles, 2, Len(articles)), urls)
             found == SelectSeq(urls, LAMBDA u : u = article.url)
         IN  [i \in 1..Len(found) |-> [article EXCEPT !.selected_for_podcast = TRUE]]
                \o rest

\* the matching loop of _extract_selected_articles: a flagged copy of every
\* article whose url is among the URLs found
RECURSIVE matched_copies(_, _)
matched_copies(articles, urls) ==
    IF articles = <<>> THEN <<>>
    ELSE LET article == articles[1]
             rest == matched_copies(SubSeq(articles, 2, Len(articles)), urls)
         IN  IF article.url \in Range(urls)
             THEN <<[article EXCEPT !.selected_for_podcast = TRUE]>> \o rest
             ELSE rest

\* ArticleAnalyzer._extract_selected_articles
extract_selected_articles(analysis_text, articles_by_category) ==
    sort_by_category_order(
        matched_copies(flatten(articles_by_category), selected_urls(analysis_text)))

\* the articles the selector may be given
SelectArticles ==
    { [title |-> "t1", url |-> "https://a", category |-> "Breaches & Incidents",
       selected_for_podcast |-> FALSE],
      [title |-> "t2", url |-> "https://b", category |-> "APTs & Cyber-Espionage",
       selected_for_podcast |-> FALSE],
      [title |-> "t3", url |-> "https://c", category |-> "Query_1",
       selected_for_podcast |-> FALSE],
      [title |-> "t4", url |-> "https://d", category |-> "Breaches & Incidents",
       selected_for_podcast |-> FALSE] }

\* article lists: every arrangement of some of the articles
SelectInputs ==
    {q \in SeqsUpTo(SelectArticles, Cardinality(SelectArticles)) :
        \A i, j \in 1..Len(q) : i # j => q[i] # q[j]}

\* the lines a response is made of: a URL behind a bulleted marker, behind an
\* un-bulleted marker, or on its own
ResponseLines ==
    UNION {{<<Bullet, Space, Marker, Space, u>>, <<Marker, Space, u>>, <<"URL:", Space, u>>}
              : u \in HttpUrls}

\* a response has up to this many lines
MaxLines == 2

\* the lines joined by newlines
RECURSIVE join_lines(_)
join_lines(lines) ==
    IF lines = <<>> THEN <<>>
    ELSE IF Len(lines) = 1 THEN lines[1]
    ELSE lines[1] \o <<Newline>> \o join_lines(SubSeq(lines, 2, Len(lines)))

ModelResponses == {join_lines(l) : l \in SeqsUpTo(ResponseLines, MaxLines)}

SelectRuns ==
    [done : {FALSE}, articles : SelectInputs, analysis_text : ModelResponses,
     articles_by_category : {<<>>}, selected : {<<>>}]

\* analyze_articles_by_category groups the articles and, with the response of the
\* model, calls _extract_selected_articles
ExtractSelectedArticles ==
    /\ ~select_run.done
    /\ LET articles_by_category == group_articles_by_category(select_run.articles)
       IN  select_run' = [select_run EXCEPT
              !.done = TRUE,
              !.articles_by_category = articles_by_category,
              !.selected = extract_selected_articles(select_run.analysis_text,
                                                     articles_by_category)]
    /\ UNCHANGED notSelect

SelectNext == ExtractSelectedArticles

\* ------------------------------------------------------------------------
\* modules/elevenlabs_tts.py, modules/audio_generator.py: splitting the text
\* ------------------------------------------------------------------------

\* A text is a sequence of atoms: a positive number n is a maximal run of n
\* characters that are neither whitespace nor a period, Dot is a period, Blank
\* is a space.
Dot == -1
Blank == 0

\* len(text)
RECURSIVE StrLen(_)
StrLen(text) ==
    IF text = <<>> THEN 0
    ELSE (IF text[1] > 0 THEN text[1] ELSE 1) + StrLen(SubSeq(text, 2, Len(text)))

\* text.split('. ')
RECURSIVE split_sentences(_)
split_sentences(text) ==
    LET at == {i \in 1..Len(text) - 1 : text[i] = Dot /\ text[i + 1] = Blank}
    IN  IF at = {} THEN <<text>>
        ELSE LET i == CHOOSE j \in at : \A k \in at : j <= k
             IN  <<SubSeq(text, 1, i - 1)>>
                    \o split_sentences(SubSeq(text, i + 2, Len(text)))

\* text.strip()
RECURSIVE strip(_)
strip(text) ==
    IF text = <<>> THEN <<>>
    ELSE IF text[1] = Blank THEN strip(SubSeq(text, 2, Len(text)))
    ELSE IF text[Len(text)] = Blank THEN strip(SubSeq(text, 1, Len(text) - 1))
    ELSE text

\* text.split(): the maximal runs without whitespace
RECURSIVE split_words(_)
split_words(text) ==
    LET t == strip(text)
        at == {i \in 1..Len(t) : t[i] = Blank}
    IN  IF t = <<>> THEN <<>>
        ELSE IF at = {} THEN <<t>>
        ELSE LET i == CHOOSE j \in at : \A k \in at : j <= k
             IN  <<SubSeq(t, 1, i - 1)>> \o split_words(SubSeq(t, i + 1, Len(t)))

\* ElevenLabsTTS.__init__: self.max_chars
max_chars == 1000

\* _split_text_into_chunks, the loop over the words of a sentence that is too
\* long: the chunks closed and the word chunk left open
RECURSIVE split_by_words(_, _, _, _)
split_by_words(words, limit, chunks, word_chunk) ==
    IF words = <<>> THEN [chunks |-> chunks, word_chunk |-> word_chunk]
    ELSE LET word == words[1]
             rest == SubSeq(words, 2, Len(words))
         IN  IF StrLen(word_chunk \o word \o <<Blank>>) <= limit
             THEN split_by_words(rest, limit, chunks, word_chunk \o word \o <<Blank>>)
             ELSE split_by_words(rest, limit,
                                 IF strip(word_chunk) # <<>>
                                 THEN Append(chunks, strip(word_chunk)) ELSE chunks,
                                 word \o <<Blank>>)

\* _split_text_into_chunks, the loop over the sentences
RECURSIVE split_loop(_, _, _, _)
split_loop(sentences, limit, chunks, current_chunk) ==
    IF sentences = <<>> THEN [chunks |-> chunks, current_chunk |-> current_chunk]
    ELSE LET sentence == sentences[1]
             rest == SubSeq(sentences, 2, Len(sentences))
             test_chunk == current_chunk \o sentence \o <<Dot, Blank>>
             closed == IF strip(current_chunk) # <<>>
                       THEN Append(chunks, strip(current_chunk)) ELSE chunks
             by_words == split_by_words(split_words(sentence), limit, closed, <<>>)
         IN  IF StrLen(test_chunk) <= limit
             THEN split_loop(rest, limit, chunks, test_chunk)
             ELSE IF StrLen(sentence \o <<Dot, Blank>>) > limit
             THEN split_loop(rest, limit, by_words.chunks,
                             IF strip(by_words.word_chunk) # <<>>
                             THEN by_words.word_chunk \o <<Dot, Blank>>
                             ELSE <<>>)
             ELSE split_loop(rest, limit, closed, sentence \o <<Dot, Blank>>)

\* ElevenLabsTTS._split_text_into_chunks
split_text_into_chunks(text) ==
    LET r == split_loop(split_sentences(text), max_chars, <<>>, <<>>)
        chunks == IF strip(r.current_chunk) # <<>>
                  THEN Append(r.chunks, strip(r.current_chunk)) ELSE r.chunks
    IN  IF chunks = <<>> /\ strip(text) # <<>> THEN <<strip(text)>> ELSE chunks

\* split_long_text, the loop over the sentences
RECURSIVE split_long_loop(_, _, _, _)
split_long_loop(sentences, limit, chunks, current_chunk) ==
    IF sentences = <<>> THEN [chunks |-> chunks, current_chunk |-> current_chunk]
    ELSE LET sentence == sentences[1]
             rest == SubSeq(sentences, 2, Len(sentences))
         IN  IF StrLen(current_chunk \o sentence \o <<Dot, Blank>>) <= limit
             THEN split_long_loop(rest, limit, chunks,
                                  current_chunk \o sentence \o <<Dot, Blank>>)
             ELSE split_long_loop(rest, limit,
                                  IF current_chunk # <<>>
                                  THEN Append(chunks, strip(current_chunk)) ELSE chunks,
                                  sentence \o <<Dot, Blank>>)

\* AudioGenerator.split_long_text with the given max_chars
split_long_text(text, limit) ==
    IF StrLen(text) <= limit THEN <<text>>
    ELSE LET r == split_long_loop(split_sentences(text), limit, <<>>, <<>>)
         IN  IF r.current_chunk # <<>>
             THEN Append(r.chunks, strip(r.current_chunk)) ELSE r.chunks

\* split_long_text: max_chars when the caller gives none and the provider is openai
openai_max_chars == 4000

\* the runs of characters the texts are made of
WordLengths == {499, 500, 1999, 2000, 3999}

\* a text has up to this many atoms
MaxAtoms == 5

\* the texts the speech stage works on, as clean_text_for_audio leaves them: not
\* empty, no whitespace at either end, no two spaces in a row (and no two runs
\* of characters in a row: runs are maximal)
CleanTexts ==
    {t \in SeqsUpTo(WordLengths \cup {Dot, Blank}, MaxAtoms) :
        /\ t # <<>>
        /\ t[1] # Blank /\ t[Len(t)] # Blank
        /\ \A i \in 1..Len(t) - 1 : ~(t[i] = Blank /\ t[i + 1] = Blank)
        /\ \A i \in 1..Len(t) - 1 : ~(t[i] > 0 /\ t[i + 1] > 0)}

\* the runs of characters of a short word
ShortWordLengths == {100}

\* texts of two sentences, the first of two words and ending in a short word,
\* the second a short word
ShortTailTexts ==
    {<<a, Blank, b, Dot, Blank, c>> : a \in WordLengths, b, c \in ShortWordLengths}

Splitters == {"elevenlabs", "openai"}

SplitRuns ==
    [done : {FALSE}, splitter : Splitters, text : CleanTexts \cup ShortTailTexts,
     chunks : {<<>>}]

\* _generate_chunked_audio calls _split_text_into_chunks
SplitTextIntoChunks ==
    /\ ~split_run.done
    /\ split_run.splitter = "elevenlabs"
    /\ split_run' = [split_run EXCEPT !.done = TRUE,
                                      !.chunks = split_text_into_chunks(split_run.text)]
    /\ UNCHANGED notSplit

\* generate_audio_from_long_text calls split_long_text
SplitLongText ==
    /\ ~split_run.done
    /\ split_run.splitter = "openai"
    /\ split_run' = [split_run EXCEPT !.done = TRUE,
                                      !.chunks = split_long_text(split_run.text,
                                                                 openai_max_chars)]
    /\ UNCHANGED notSplit

SplitNext ==
    \/ SplitTextIntoChunks
    \/ SplitLongText

\* ------------------------------------------------------------------------
\* modules/audio_generator.py, modules/elevenlabs_tts.py: synthesis in chunks
\* and reassembly (the two modules share the reassembly code)
\* ------------------------------------------------------------------------

\* The content of a file is a sequence of byte ranges, each a stretch
\* from..to of the bytes the speech backend returned for one chunk.
NoFile == [exists |-> FALSE, content |-> <<>>]
FileOf(content) == [exists |-> TRUE, content |-> content]

\* the bytes the backend returned for chunk i, size of them
synthesized(i, size) ==
    IF size > 0 THEN <<[chunk |-> i, from |-> 0, to |-> size]>> ELSE <<>>

\* the number of bytes of a content
RECURSIVE ByteCount(_)
ByteCount(content) ==
    IF content = <<>> THEN 0
    ELSE content[1].to - content[1].from + ByteCount(SubSeq(content, 2, Len(content)))

\* infile.read(k) followed by infile.read(): what is left behind the first k bytes
RECURSIVE read_after(_, _)
read_after(content, k) ==
    IF content = <<>> \/ k = 0 THEN content
    ELSE LET r == content[1]
             rest == SubSeq(content, 2, Len(content))
         IN  IF r.to - r.from <= k THEN read_after(rest, k - (r.to - r.from))
             ELSE <<[r EXCEPT !.from = @ + k]>> \o rest

\* _simple_combine_chunks: the bytes skipped at the start of every later chunk
HeaderSkip == 1024

\* paths: the output file, the temporary file of chunk i
FinalPath == [kind |-> "final", i |-> 0]
ChunkPath(i) == [kind |-> "chunk", i |-> i]
NoPath == [kind |-> "none", i |-> 0]

\* Path(p).exists()
path_exists(fs, p) ==
    IF p.kind = "final" THEN fs.final.exists
    ELSE IF p.kind = "chunk" THEN p.i \in 1..Len(fs.chunk) /\ fs.chunk[p.i].exists
    ELSE FALSE

\* the loop of _simple_combine_chunks with the skip applied to every chunk
RECURSIVE combine_loop_skip_all(_, _, _, _, _)
combine_loop_skip_all(fs, chunk_files, i, fail_at, out) ==
    IF i > Len(chunk_files) THEN [ok |-> TRUE, out |-> out]
    ELSE IF fail_at = i \/ ~fs.chunk[chunk_files[i]].exists
    THEN [ok |-> FALSE, out |-> out]
    ELSE combine_loop_skip_all(fs, chunk_files, i + 1, fail_at,
            out \o read_after(fs.chunk[chunk_files[i]].content, HeaderSkip))

\* the loop of _simple_combine_chunks: every chunk file is appended in turn, the
\* later ones without their first HeaderSkip bytes; reading chunk fail_at fails
RECURSIVE combine_loop(_, _, _, _, _)
combine_loop(fs, chunk_files, i, fail_at, out) ==
    IF i > Len(chunk_files) THEN [ok |-> TRUE, out |-> out]
    ELSE IF fail_at = i \/ ~fs.chunk[chunk_files[i]].exists
    THEN [ok |-> FALSE, out |-> out]
    ELSE combine_loop(fs, chunk_files, i + 1, fail_at,
            out \o (IF i > 1
                    THEN read_after(fs.chunk[chunk_files[i]].content, HeaderSkip)
                    ELSE fs.chunk[chunk_files[i]].content))

\* _simple_combine_chunks: fail_at = 0 is a failure to open the output file; any
\* failure gives back the path of the first chunk
simple_combine_chunks(fs, chunk_files, fail_at) ==
    IF fail_at = 0
    THEN [files |-> fs, returned |-> ChunkPath(chunk_files[1]), raised |-> FALSE]
    ELSE LET r == combine_loop(fs, chunk_files, 1, fail_at, <<>>)
         IN  [files |-> [fs EXCEPT !.final = FileOf(r.out)],
              returned |-> IF r.ok THEN FinalPath ELSE ChunkPath(chunk_files[1]),
              raised |-> FALSE]

\* _combine_audio_chunks: no chunk raises, one chunk is moved (fail_at = 0: the
\* move fails and raises), several are concatenated
combine_audio_chunks(fs, chunk_files, fail_at) ==
    IF chunk_files = <<>>
    THEN [files |-> fs, returned |-> NoPath, raised |-> TRUE]
    ELSE IF Len(chunk_files) = 1
    THEN IF fail_at = 0 \/ ~fs.chunk[chunk_files[1]].exists
         THEN [files |-> fs, returned |-> NoPath, raised |-> TRUE]
         ELSE [files |-> [fs EXCEPT !.final = fs.chunk[chunk_files[1]],
                                    !.chunk[chunk_files[1]] = NoFile],
               returned |-> FinalPath, raised |-> FALSE]
    ELSE simple_combine_chunks(fs, chunk_files, fail_at)

\* _cleanup_chunk_files: every chunk file is unlinked, a failure to unlink is
\* only logged
cleanup_chunk_files(fs, chunk_files) ==
    [fs EXCEPT !.chunk = [i \in 1..Len(fs.chunk) |->
                             IF i \in Range(chunk_files) THEN NoFile ELSE fs.chunk[i]]]

\* the end of both strategies: combine, then clean up when the returned path exists
combine_and_cleanup(fs, audio_files, fail_at) ==
    LET c == combine_audio_chunks(fs, audio_files, fail_at)
    IN  IF c.raised THEN c
        ELSE IF c.returned # NoPath /\ path_exists(c.files, c.returned)
        THEN [c EXCEPT !.files = cleanup_chunk_files(c.files, audio_files)]
        ELSE c

\* the chunk files written by the loop over the chunks: those before the first
\* chunk the backend fails for
first_failure(synth) ==
    IF \E i \in 1..Len(synth) : ~synth[i].ok
    THEN CHOOSE i \in 1..Len(synth) : ~synth[i].ok /\ \A j \in 1..(i - 1) : synth[j].ok
    ELSE Len(synth) + 1

written_chunks(synth) ==
    [i \in 1..Len(synth) |->
        IF i < first_failure(synth)
        THEN FileOf(synthesized(i, synth[i].size)) ELSE NoFile]

\* ElevenLabsTTS._generate_chunked_audio (Strategy B): a chunk failure cleans up
\* the chunks written so far and raises
generate_chunked_audio(fs, synth, fail_at) ==
    LET n == Len(synth)
        f == first_failure(synth)
        written == [fs EXCEPT !.chunk = written_chunks(synth)]
        audio_files == [i \in 1..(f - 1) |-> i]
    IN  IF f <= n
        THEN [files |-> cleanup_chunk_files(written, audio_files),
              returned |-> NoPath, raised |-> TRUE]
        ELSE combine_and_cleanup(written, audio_files, fail_at)

\* AudioGenerator.validate_text_length for the openai provider
openai_tts_limit == 4096
validate_text_length(text) == StrLen(text) <= openai_tts_limit

\* AudioGenerator.generate_audio_from_long_text with the openai provider
\* (Strategy A): a text within the limit is synthesized straight into the output
\* file; a chunk failure raises at once
generate_audio_from_long_text(fs, text, synth, fail_at) ==
    LET n == Len(synth)
        f == first_failure(synth)
        written == [fs EXCEPT !.chunk = written_chunks(synth)]
        audio_files == [i \in 1..(f - 1) |-> i]
    IN  IF validate_text_length(text)
        THEN IF synth[1].ok
             THEN [files |-> [fs EXCEPT !.final = FileOf(synthesized(0, synth[1].size))],
                   returned |-> FinalPath, raised |-> FALSE]
             ELSE [files |-> fs, returned |-> NoPath, raised |-> TRUE]
        ELSE IF f <= n
        THEN [files |-> written, returned |-> NoPath, raised |-> TRUE]
        ELSE combine_and_cleanup(written, audio_files, fail_at)

\* the texts given to the speech stage
AudioTexts ==
    { <<499>>,
      <<500, Dot, Blank, 500>>,
      <<500, Dot, Blank, 500, Dot, Blank, 499>>,
      <<2000, Dot, Blank, 2000, Dot, Blank, 499>>,
      <<2000, Dot, Blank, 2000, Dot, Blank, 2000>> }

\* what the speech backend answers for one chunk: a failure, or so many bytes
SynthOutcomes ==
    {[ok |-> FALSE, size |-> 0]} \cup [ok : {TRUE}, size : {0, 512, 1024, 2048}]

\* the number of synthesis requests a call makes for a text
requests(provider, text) ==
    IF provider = "elevenlabs" THEN Len(split_text_into_chunks(text))
    ELSE IF validate_text_length(text) THEN 1
    ELSE Len(split_long_text(text, openai_max_chars))

NoAudioRun ==
    [done |-> FALSE, provider |-> None, text |-> <<>>, synth |-> <<>>, fail_at |-> 0,
     returned |-> NoPath, raised |-> FALSE]

NoFiles == [final |-> NoFile, chunk |-> <<>>]

\* AudioGenerator.generate_audio_from_long_text, either provider
GenerateAudio(provider, text, synth, fail_at) ==
    /\ ~audio_run.done
    /\ LET r == IF provider = "elevenlabs"
                THEN generate_chunked_audio(files, synth, fail_at)
                ELSE generate_audio_from_long_text(files, text, synth, fail_at)
       IN  /\ files' = r.files
           /\ audio_run' = [done |-> TRUE, provider |-> provider, text |-> text,
                            synth |-> synth, fail_at |-> fail_at,
                            returned |-> r.returned, raised |-> r.raised]
    /\ UNCHANGED notAudio

AudioNext ==
    \E provider \in Splitters, text \in AudioTexts :
        \E synth \in [1..requests(provider, text) -> SynthOutcomes],
           fail_at \in 0..(requests(provider, text) + 1) :
            GenerateAudio(provider, text, synth, fail_at)

\* ------------------------------------------------------------------------
\* modules/content_generator.py, utils/prompt_loader.py: the podcast script
\* ------------------------------------------------------------------------

\* the prompt files the script composer reads
PromptNames == {"podcast-script-system", "podcast-script-user", "fallback-script-content"}

\* what a prompt file may be: missing, a template with the placeholders the
\* composer fills, or a template with a placeholder the composer does not fill
PromptFileStates == {"missing", "template", "unknown_placeholder"}

\* PromptLoader.load_prompt: the cached content, or the content of the file,
\* which is then cached; a missing file raises
load_prompt(pfiles, pcache, prompt_name) ==
    IF pcache[prompt_name] # None
    THEN [raised |-> FALSE, content |-> pcache[prompt_name], cache |-> pcache]
    ELSE IF pfiles[prompt_name] = "missing"
    THEN [raised |-> TRUE, content |-> None, cache |-> pcache]
    ELSE [raised |-> FALSE, content |-> pfiles[prompt_name],
          cache |-> [pcache EXCEPT ![prompt_name] = pfiles[prompt_name]]]

\* PromptLoader.format_prompt: a placeholder without a value raises
format_prompt(pfiles, pcache, prompt_name) ==
    LET l == load_prompt(pfiles, pcache, prompt_name)
    IN  IF l.raised THEN l
        ELSE IF l.content = "unknown_placeholder"
        THEN [l EXCEPT !.raised = TRUE, !.content = None]
        ELSE l

\* ContentGenerator._create_fallback_script: the fixed opening and closing lines
\* around the content of the fallback prompt
create_fallback_script(pfiles, pcache) ==
    LET l == load_prompt(pfiles, pcache, "fallback-script-content")
    IN  IF l.raised
        THEN [raised |-> TRUE, script |-> [kind |-> None, body |-> None],
              cache |-> l.cache, generative_calls |-> 0]
        ELSE [raised |-> FALSE, script |-> [kind |-> "fallback", body |-> l.content],
              cache |-> l.cache, generative_calls |-> 0]

\* ContentGenerator.create_podcast_script: the two prompts are built before the
\* try block, the generative call is made inside it
create_podcast_script(articles, pfiles, pcache, gen) ==
    LET sys == format_prompt(pfiles, pcache, "podcast-script-system")
        usr == format_prompt(pfiles, sys.cache, "podcast-script-user")
        raise(cache) == [raised |-> TRUE, script |-> [kind |-> None, body |-> None],
                         cache |-> cache, generative_calls |-> 0]
    IN  IF articles = <<>> THEN create_fallback_script(pfiles, pcache)
        ELSE IF sys.raised THEN raise(sys.cache)
        ELSE IF usr.raised THEN raise(usr.cache)
        ELSE IF gen = "error"
        THEN [create_fallback_script(pfiles, usr.cache) EXCEPT !.generative_calls = 1]
        ELSE [raised |-> FALSE, script |-> [kind |-> "generated", body |-> gen],
              cache |-> usr.cache, generative_calls |-> 1]

\* the article lists the composer is called on
ScriptInputs == { <<>>, <<A1>>, <<A1, A2>> }

\* what the generative call gives: an error or the script text
ScriptOutcomes == {"error", "script", ""}

NoScriptRun ==
    [done |-> FALSE, articles |-> <<>>, gen |-> None, fallback_loadable |-> FALSE,
     raised |-> FALSE,
     script |-> [kind |-> None, body |-> None], generative_calls |-> 0]

\* ContentGenerator.create_podcast_script is called
CreatePodcastScript(articles, gen) ==
    /\ LET mgr == setup_client(manager, SELECTED_MODEL)
           sys == format_prompt(prompt_files, prompt_cache, "podcast-script-system")
           r == create_podcast_script(articles, prompt_files, prompt_cache, gen)
       IN  /\ manager' = IF articles # <<>> /\ ~sys.raised THEN mgr ELSE manager
           /\ prompt_cache' = r.cache
           /\ script_run' = [done |-> TRUE, articles |-> articles, gen |-> gen,
                             fallback_loadable |->
                                 ~load_prompt(prompt_files, prompt_cache,
                                              "fallback-script-content").raised,
                             raised |-> r.raised, script |-> r.script,
                             generative_calls |-> r.generative_calls]
    /\ UNCHANGED prompt_files
    /\ UNCHANGED notScript

\* a prompt file is edited, added or removed
EditPromptFile(prompt_name, content) ==
    /\ prompt_files[prompt_name] # content
    /\ prompt_files' = [prompt_files EXCEPT ![prompt_name] = content]
    /\ UNCHANGED <<manager, prompt_cache, script_run>>
    /\ UNCHANGED notScript

ScriptNext ==
    \/ \E articles \in ScriptInputs, gen \in ScriptOutcomes :
          CreatePodcastScript(articles, gen)
    \/ \E prompt_name \in PromptNames, content \in PromptFileStates :
          EditPromptFile(prompt_name, content)

\* ------------------------------------------------------------------------
\* modules/article_analyzer.py: analyze_articles_by_category
\* ------------------------------------------------------------------------

\* A text of n characters, for the token counters. tiktoken is taken to give one
\* token for four characters, the rate _trim_articles_to_fit itself assumes.
text_of(n) == [len |-> n, tok |-> n \div 4, tokfail |-> FALSE]

\* analyze_articles_by_category: the length of the literal sample_user_prompt
SampleUserPromptLen == 130

\* _format_articles_by_category: the characters of one article block that are
\* not field values ("### Article i", the five labels, the line ends)
ArticleLabelsLen == 75

\* _format_articles_by_category: "## " and the two line ends around a category
SectionMarkLen == 5

\* _trim_articles_to_fit: the length of "... [trimmed]"
TrimmedMarkLen == 13

\* _trim_articles_to_fit: the token buffer kept free
TokenBuffer == 100

\* len(category)
CategoryLen(category) ==
    CASE category = "APTs & Cyber-Espionage" -> 22
      [] category = "Arrests & Cybercrime" -> 20
      [] category = "Breaches & Incidents" -> 20
      [] category = "Cybersecurity IPOs" -> 18
      [] category = "Cybersecurity Funding" -> 21
      [] category = "Cybersecurity M&A" -> 17
      [] OTHER -> 7

RECURSIVE SumSeq(_)
SumSeq(q) == IF q = <<>> THEN 0 ELSE q[1] + SumSeq(SubSeq(q, 2, Len(q)))

\* summary.rfind('.') in the first n characters of a summary whose sentences are
\* all of the same length (0: no period at all)
rfind_period(summary, n) ==
    IF summary.sentence > 0 /\ n >= summary.sentence
    THEN summary.sentence * (n \div summary.sentence) - 1
    ELSE -1

\* _trim_articles_to_fit, the summary of one article: its length when the
\* article block is written
trim_summary(mgr, summary, target_tokens_per_article) ==
    LET summary_tokens == count_tokens(mgr, text_of(summary.len))
        target_chars == target_tokens_per_article * 4
        sliced == IF target_chars >= 0 THEN Min(summary.len, target_chars)
                  ELSE Max(0, summary.len + target_chars)
        last_period == rfind_period(summary, sliced)
        cut == IF 10 * last_period > 7 * target_chars THEN last_period + 1 ELSE sliced
    IN  IF summary_tokens > target_tokens_per_article
        THEN cut + TrimmedMarkLen
        ELSE summary.len

\* one section of the formatted text: the category line and the article blocks,
\* given the length each summary is written with
section_len(group, summary_lens) ==
    SectionMarkLen + CategoryLen(group.category)
        + SumSeq([k \in 1..Len(group.articles) |->
                     ArticleLabelsLen + group.articles[k].meta_len + summary_lens[k]])

\* "\n".join(sections)
joined_len(section_lens) ==
    SumSeq(section_lens) + (IF section_lens = <<>> THEN 0 ELSE Len(section_lens) - 1)

\* ArticleAnalyzer._format_articles_by_category: the length of the text
format_articles_by_category(articles_by_category) ==
    joined_len([g \in 1..Len(articles_by_category) |->
        section_len(articles_by_category[g],
                    [k \in 1..Len(articles_by_category[g].articles) |->
                        articles_by_category[g].articles[k].summary.len])])

\* ArticleAnalyzer._trim_articles_to_fit: the length of the text it returns
trim_articles_to_fit(mgr, articles_by_category, max_message_tokens, system_prompt) ==
    LET system_tokens == count_tokens(mgr, system_prompt)
        available_tokens == max_message_tokens - system_tokens - TokenBuffer
        formatted_articles == format_articles_by_category(articles_by_category)
        current_tokens == count_tokens(mgr, text_of(formatted_articles))
        total_articles == SumSeq([g \in 1..Len(articles_by_category) |->
                                     Len(articles_by_category[g].articles)])
        target_tokens_per_article == available_tokens \div total_articles
    IN  IF current_tokens <= available_tokens
        THEN [len |-> formatted_articles, trimmed |-> FALSE]
        ELSE [len |-> joined_len([g \in 1..Len(articles_by_category) |->
                         section_len(articles_by_category[g],
                             [k \in 1..Len(articles_by_category[g].articles) |->
                                 trim_summary(mgr,
                                              articles_by_category[g].articles[k].summary,
                                              target_tokens_per_article)])]),
              trimmed |-> TRUE]

\* what analyze_articles_by_category returns as analysis: the kind of text, the
\* (category, title) lines of an emergency summary, the response of the model
NoAnalysis == [kind |-> None, lines |-> <<>>, text |-> <<>>]

\* ArticleAnalyzer._emergency_fallback_analysis
emergency_fallback_analysis(articles_by_category) ==
    LET filled == SelectSeq(articles_by_category, LAMBDA g : g.articles # <<>>)
    IN  [analysis |-> [kind |-> "emergency",
                       lines |-> [k \in 1..Len(filled) |->
                                     [category |-> filled[k].category,
                                      title |-> filled[k].articles[1].title]],
                       text |-> <<>>],
         selected |-> [k \in 1..Len(filled) |-> filled[k].articles[1]]]

\* an analysis that sends the prompt to the model whatever its size
analyze_articles_by_category_unchecked(self, mgr, articles, system_prompt, user_template, gen) ==
    LET articles_by_category == group_articles_by_category(articles)
        lim == calculate_dynamic_limits(self, mgr, system_prompt,
                                        text_of(SampleUserPromptLen))
        formatted_articles == trim_articles_to_fit(mgr, articles_by_category,
                                                   lim.max_message_tokens, system_prompt)
        user_prompt == text_of(user_template.len + formatted_articles.len)
        total_message_tokens == count_tokens(mgr, system_prompt)
                                    + count_tokens(mgr, user_prompt)
        made == [analysis |-> NoAnalysis, selected |-> <<>>, generative_calls |-> 1,
                 total_message_tokens |-> total_message_tokens,
                 max_tokens |-> lim.completion_tokens,
                 trimmed |-> formatted_articles.trimmed]
    IN  IF articles = <<>>
        THEN [analysis |-> [NoAnalysis EXCEPT !.kind = "no_articles"],
              selected |-> <<>>, generative_calls |-> 0, total_message_tokens |-> 0,
              max_tokens |-> 0, trimmed |-> FALSE]
        ELSE IF ~gen.ok
        THEN [made EXCEPT !.analysis = [NoAnalysis EXCEPT !.kind = "error"]]
        ELSE [made EXCEPT
                 !.analysis = [NoAnalysis EXCEPT !.kind = "response", !.text = gen.text],
                 !.selected = extract_selected_articles(gen.text, articles_by_category)]

\* ArticleAnalyzer.analyze_articles_by_category: the analysis and the selection,
\* with the request it made (none, or one of so many message tokens)
analyze_articles_by_category(self, mgr, articles, system_prompt, user_template, gen) ==
    LET articles_by_category == group_articles_by_category(articles)
        lim == calculate_dynamic_limits(self, mgr, system_prompt,
                                        text_of(SampleUserPromptLen))
        formatted_articles == trim_articles_to_fit(mgr, articles_by_category,
                                                   lim.max_message_tokens, system_prompt)
        user_prompt == text_of(user_template.len + formatted_articles.len)
        total_message_tokens == count_tokens(mgr, system_prompt)
                                    + count_tokens(mgr, user_prompt)
        fallback == emergency_fallback_analysis(articles_by_category)
        made == [analysis |-> NoAnalysis, selected |-> <<>>, generative_calls |-> 1,
                 total_message_tokens |-> total_message_tokens,
                 max_tokens |-> lim.completion_tokens,
                 trimmed |-> formatted_articles.trimmed]
    IN  IF articles = <<>>
        THEN [analysis |-> [NoAnalysis EXCEPT !.kind = "no_articles"],
              selected |-> <<>>, generative_calls |-> 0, total_message_tokens |-> 0,
              max_tokens |-> 0, trimmed |-> FALSE]
        ELSE IF total_message_tokens > self.max_message_tokens
        THEN [made EXCEPT !.analysis = fallback.analysis,
                          !.selected = fallback.selected,
                          !.generative_calls = 0]
        ELSE IF ~gen.ok
        THEN [made EXCEPT !.analysis = [NoAnalysis EXCEPT !.kind = "error"]]
        ELSE [made EXCEPT
                 !.analysis = [NoAnalysis EXCEPT !.kind = "response", !.text = gen.text],
                 !.selected = extract_selected_articles(gen.text, articles_by_category)]

\* summaries the enhanced articles may carry: length, length of a sentence
AnalysisSummaries ==
    { [len |-> 400, sentence |-> 100],
      [len |-> 20000, sentence |-> 0],
      [len |-> 20000, sentence |-> 1000] }

\* the articles given to the analysis
AnalysisArticles ==
    { [title |-> a.title, url |-> a.url, category |-> a.category,
       selected_for_podcast |-> FALSE, meta_len |-> 120, summary |-> sm] :
          a \in {x \in SelectArticles : x.category \in Range(category_names)},
          sm \in AnalysisSummaries }

\* an analysis is given up to this many articles
MaxAnalysisArticles == 2

AnalysisInputs ==
    {q \in SeqsUpTo(AnalysisArticles, MaxAnalysisArticles) :
        \A i, j \in 1..Len(q) : i # j => q[i].url # q[j].url}

\* the prompts article-analysis-system and article-analysis-user (its text
\* around the placeholder)
AnalysisSystemPrompts == {text_of(2000), text_of(26000)}
AnalysisUserTemplate == text_of(400)

\* what the model answers to the analysis request: a failure, or a response
AnalysisOutcomes ==
    {[ok |-> FALSE, text |-> <<>>]}
        \cup {[ok |-> TRUE, text |-> t] :
                 t \in { <<"none">>,
                         <<Bullet, Space, Marker, Space, "https://a">>,
                         join_lines(<< <<Bullet, Space, Marker, Space, "https://b">>,
                                       <<Bullet, Space, Marker, Space, "https://a">> >>) }}

NoAnalyzeRun ==
    [calls |-> 0, articles |-> <<>>, system_prompt |-> text_of(0),
     gen |-> [ok |-> FALSE, text |-> <<>>], cap |-> 0,
     result |-> [analysis |-> NoAnalysis, selected |-> <<>>, generative_calls |-> 0,
                 total_message_tokens |-> 0, max_tokens |-> 0, trimmed |-> FALSE]]

\* a call of analyze_articles_by_category on the constructed analyzer
AnalyzeArticles(articles, system_prompt, gen) ==
    /\ analyzer.built # None
    /\ analyze_run.calls = 0
    /\ LET mgr == setup_client(manager, SELECTED_MODEL)
       IN  /\ manager' = IF articles = <<>> THEN manager ELSE mgr
           /\ limits' = IF articles = <<>> THEN limits
                        ELSE calculate_dynamic_limits(analyzer, mgr, system_prompt,
                                                      text_of(SampleUserPromptLen))
           /\ analyze_run' =
                 [calls |-> 1, articles |-> articles, system_prompt |-> system_prompt,
                  gen |-> gen, cap |-> analyzer.max_message_tokens,
                  result |-> analyze_articles_by_category(analyzer, mgr, articles,
                                 system_prompt, AnalysisUserTemplate, gen)]
    /\ UNCHANGED <<SELECTED_MODEL, analyzer>>
    /\ UNCHANGED notAnalyze

AnalyzeNext ==
    \/ \E m \in Models : set_selected_model(m)
    \/ NewArticleAnalyzer
    \/ \E articles \in AnalysisInputs, system_prompt \in AnalysisSystemPrompts,
          gen \in AnalysisOutcomes : AnalyzeArticles(articles, system_prompt, gen)

\* ------------------------------------------------------------------------
\* main.py: the run
\* ------------------------------------------------------------------------

\* the credentials of the environment
Credentials == {"OPENAI_API_KEY", "OPEN_ROUTER", "SERPER_API_KEY", "ELEVEN_LABS_API_KEY"}

\* Config.TTS_PROVIDER when the environment sets none
DefaultTtsProvider == "openai"

\* Config.validate: "valid", or the credential whose absence raises ValueError
validate(selected_model, tts_provider, keys) ==
    IF selected_model = "gemini" /\ "OPEN_ROUTER" \notin keys THEN "OPEN_ROUTER"
    ELSE IF selected_model # "gemini" /\ "OPENAI_API_KEY" \notin keys
    THEN "OPENAI_API_KEY"
    ELSE IF tts_provider = "elevenlabs" /\ "ELEVEN_LABS_API_KEY" \notin keys
    THEN "ELEVEN_LABS_API_KEY"
    ELSE IF tts_provider = "openai" /\ "OPENAI_API_KEY" \notin keys
    THEN "OPENAI_API_KEY"
    ELSE IF "SERPER_API_KEY" \notin keys THEN "SERPER_API_KEY"
    ELSE "valid"

\* ModelManager._configure_for_model: the credential the client of a model is
\* built with
client_credential(m) ==
    IF m \in {"gemini", "gemini-flash"} THEN "OPEN_ROUTER" ELSE "OPENAI_API_KEY"

\* AudioGenerator.__init__ / ElevenLabsTTS.__init__: the credential of a provider
speech_credential(provider) ==
    IF provider = "elevenlabs" THEN "ELEVEN_LABS_API_KEY" ELSE "OPENAI_API_KEY"

\* main.configure_search_modes: the search_mode argument overrides the modes
configure_search_modes(search_mode, modes) ==
    IF search_mode = "basic_keywords" THEN [basic_keywords |-> TRUE, google_dorks |-> FALSE]
    ELSE IF search_mode = "google_dorks" THEN [basic_keywords |-> FALSE, google_dorks |-> TRUE]
    ELSE IF search_mode = "both" THEN [basic_keywords |-> TRUE, google_dorks |-> TRUE]
    ELSE modes

\* the command line: parse_arguments
MainArgs ==
    [model : Models, tts : {None, "openai", "elevenlabs"},
     search_mode : {None, "both"},
     no_filtering : BOOLEAN, no_enhancement : BOOLEAN]

\* the steps of main, in the order of its text
stages == <<"collect", "filter", "enhance", "select", "compose", "synthesize">>

StageIndex(stage) == CHOOSE k \in 1..Len(stages) : stages[k] = stage

\* a run that speaks the script before it is composed
next_stage_speech_first(stage) ==
    IF stage = "select" THEN "synthesize"
    ELSE IF stage = "synthesize" THEN "compose"
    ELSE IF stage = "compose" THEN "done"
    ELSE stages[StageIndex(stage) + 1]

\* main: the step that follows a step
next_stage(stage) ==
    IF StageIndex(stage) = Len(stages) THEN "done" ELSE stages[StageIndex(stage) + 1]

\* a call to a collaborator outside the process, a storage access, or the write
\* of an artifact, made by a stage for its item-th item (query, article, chunk)
Event(stage, call, item) == [stage |-> stage, call |-> call, item |-> item]

\* the articles as the collector hands them over
M1 == [title |-> "t1", url |-> "https://a", category |-> "Breaches & Incidents",
       snippet |-> "snip1", summary |-> None, enhanced |-> None,
       enhancement_method |-> None, selected_for_podcast |-> FALSE]
M2 == [title |-> "t2", url |-> "https://b", category |-> "APTs & Cyber-Espionage",
       snippet |-> "snip2", summary |-> None, enhanced |-> None,
       enhancement_method |-> None, selected_for_podcast |-> FALSE]

\* what collect_daily_news may return to main
MainCollected == { <<>>, <<M1>>, <<M1, M2>> }

\* what filter_relevant_articles may return to main for a list: all of it, its
\* first article, nothing
FilterResults(all_articles) ==
    {all_articles, SubSeq(all_articles, 1, Min(1, Len(all_articles))), <<>>}

\* what happens to one article in the enhancer during a run of main
MainOutcomes ==
    [lookup_fails : {FALSE}, fetch : {"request_failed"}, gen : {"error"},
     put_fails : {FALSE}]
      \cup [lookup_fails : {FALSE}, fetch : {"trafilatura"},
            gen : {"error", "S1", "S2"}, put_fails : {FALSE}]

\* the calls of one round of the enhancer, in the order they are made
enhance_events(i, calls) ==
    (IF calls.lookups = 1 THEN <<Event("enhance", "cache_get", i)>> ELSE <<>>)
        \o (IF calls.fetches = 1 THEN <<Event("enhance", "fetch", i)>> ELSE <<>>)
        \o (IF calls.generations = 1 THEN <<Event("enhance", "generate", i)>> ELSE <<>>)
        \o (IF calls.puts = 1 THEN <<Event("enhance", "cache_put", i)>> ELSE <<>>)

\* the article as _format_articles_by_category reads it: the summary if there
\* is one, the snippet otherwise
analysis_view(a) ==
    [title |-> a.title, url |-> a.url, category |-> a.category,
     selected_for_podcast |-> FALSE, meta_len |-> 120,
     summary |-> IF a.summary = "S2" THEN [len |-> 20000, sentence |-> 0]
                 ELSE [len |-> 400, sentence |-> 100]]

\* the article of a list that has the URL
ArticleOf(articles, url) ==
    articles[CHOOSE k \in 1..Len(articles) : articles[k].url = url]

\* main: the selection for the script when the analysis selected nothing
choose_podcast_articles_selection_only(selected_articles, enhanced_articles) ==
    selected_articles

\* main: the articles the script is composed from
choose_podcast_articles(selected_articles, enhanced_articles) ==
    IF selected_articles # <<>> THEN selected_articles ELSE enhanced_articles

\* the text of a script: a generated script is long, the fallback script short
script_text(script) ==
    IF script.kind = "generated" THEN <<2000, Dot, Blank, 2000, Dot, Blank, 499>>
    ELSE <<499>>

\* what the speech backend answers for one chunk during a run of main
MainSynthOutcomes == {[ok |-> FALSE, size |-> 0], [ok |-> TRUE, size |-> 2048]}

NoMainRun ==
    [pc |-> "idle",
     args |-> [model |-> "openai", tts |-> None, search_mode |-> None,
               no_filtering |-> FALSE, no_enhancement |-> FALSE],
     keys |-> {}, provider |-> None,
     result |-> None, failed_at |-> None, failed_call |-> None, error |-> None,
     all_articles |-> <<>>, relevant_articles |-> <<>>, i |-> 1, rows |-> {},
     enhanced_articles |-> <<>>, analysis |-> NoAnalysis,
     selected_articles |-> <<>>, podcast_articles |-> <<>>, composed_from |-> <<>>,
     script |-> [kind |-> None, body |-> None], audio_file |-> NoPath,
     log |-> <<>>]

\* main: an exception raised by a call of a step leaves the try block; the run
\* returns False
main_fails(run, stage, call, error, events) ==
    [run EXCEPT !.pc = "done", !.result = "False", !.failed_at = stage,
                !.failed_call = call, !.error = error, !.log = @ \o events]

\* main, lines 97-139: model and provider are set, the search modes configured,
\* the configuration validated, the modules constructed
MainStart(args, keys) ==
    /\ main_run.pc = "idle"
    /\ LET provider == IF args.tts # None THEN args.tts ELSE DefaultTtsProvider
           valid == validate(args.model, provider, keys) = "valid"
           mgr == setup_client(manager, args.model)
           run == [main_run EXCEPT !.args = args, !.keys = keys, !.provider = provider]
       IN  /\ SELECTED_MODEL' = args.model
           /\ search_modes' = configure_search_modes(args.search_mode, search_modes)
           /\ manager' = IF valid THEN mgr ELSE manager
           /\ analyzer' = IF valid THEN analyzer_init(mgr) ELSE analyzer
           /\ main_run' = IF valid THEN [run EXCEPT !.pc = stages[1]]
                          ELSE main_fails(run, "validation", "validate", "ValueError", <<>>)
    /\ UNCHANGED <<limits, prompt_cache, files>>
    /\ UNCHANGED notMain

\* main, Step 1: collect_daily_news issues the active queries one after the other
MainCollect(all_articles) ==
    /\ main_run.pc = "collect"
    /\ LET queries == get_active_search_queries(search_modes)
       IN  main_run' = [main_run EXCEPT
              !.pc = next_stage("collect"),
              !.all_articles = all_articles,
              !.log = @ \o [k \in 1..Len(queries) |-> Event("collect", "search", k)]]
    /\ UNCHANGED <<budgetVars, search_modes, prompt_cache, files>>
    /\ UNCHANGED notMain

\* main, lines 145-160: the relevance filter unless disabled, then sources.json
MainFilter(kept, write_ok) ==
    /\ main_run.pc = "filter"
    /\ kept \in FilterResults(main_run.all_articles)
    /\ LET relevant_articles ==
               IF main_run.all_articles = <<>> THEN <<>>
               ELSE IF main_run.args.no_filtering THEN main_run.all_articles
               ELSE kept
       IN  main_run' =
              IF write_ok
              THEN [main_run EXCEPT
                       !.pc = next_stage("filter"),
                       !.relevant_articles = relevant_articles,
                       !.log = Append(@, Event("filter", "write", 0))]
              ELSE main_fails([main_run EXCEPT !.relevant_articles = relevant_articles],
                              "filter", "write", "Exception", <<>>)
    /\ UNCHANGED <<budgetVars, search_modes, prompt_cache, files>>
    /\ UNCHANGED notMain

\* main, Step 2, one round of the loop of enhance_articles
MainEnhanceArticle(o) ==
    /\ main_run.pc = "enhance"
    /\ ~main_run.args.no_enhancement
    /\ main_run.i <= Len(main_run.relevant_articles)
    /\ LET mgr == setup_client(manager, SELECTED_MODEL)
           article == main_run.relevant_articles[main_run.i]
           r == enhance_one(article, main_run.rows, now,
                            calculate_per_article_budget(
                                mgr, Len(main_run.relevant_articles)), o)
       IN  /\ manager' = mgr
           /\ main_run' = [main_run EXCEPT
                 !.i = @ + 1,
                 !.rows = r.rows,
                 !.enhanced_articles =
                     Append(@, [article EXCEPT
                                   !.summary = r.article.summary,
                                   !.enhanced = r.article.enhanced,
                                   !.enhancement_method = r.article.enhancement_method]),
                 !.log = @ \o enhance_events(main_run.i, r.calls)]
    /\ UNCHANGED <<SELECTED_MODEL, analyzer, limits, search_modes, prompt_cache, files>>
    /\ UNCHANGED notMain

\* main, lines 163-175: enhancement is skipped, or its result is saved
MainEnhanceDone(write_ok) ==
    /\ main_run.pc = "enhance"
    /\ main_run.args.no_enhancement \/ main_run.i > Len(main_run.relevant_articles)
    /\ main_run' =
          IF main_run.args.no_enhancement
          THEN [main_run EXCEPT !.pc = next_stage("enhance"),
                                !.enhanced_articles = main_run.relevant_articles]
          ELSE IF write_ok
          THEN [main_run EXCEPT !.pc = next_stage("enhance"),
                                !.log = Append(@, Event("enhance", "write", 0))]
          ELSE main_fails(main_run, "enhance", "write", "Exception", <<>>)
    /\ UNCHANGED <<budgetVars, search_modes, prompt_cache, files>>
    /\ UNCHANGED notMain

\* main, Step 3: the analysis, its file, and the choice of the articles for the
\* script
MainSelect(gen, write_ok) ==
    /\ main_run.pc = "select"
    /\ LET mgr == setup_client(manager, SELECTED_MODEL)
           enhanced == main_run.enhanced_articles
           system_prompt == text_of(2000)
           r == analyze_articles_by_category(
                    analyzer, mgr,
                    [k \in 1..Len(enhanced) |-> analysis_view(enhanced[k])],
                    system_prompt, AnalysisUserTemplate, gen)
           selected_articles ==
               [k \in 1..Len(r.selected) |->
                   [ArticleOf(enhanced, r.selected[k].url) EXCEPT
                       !.selected_for_podcast = r.selected[k].selected_for_podcast]]
           calls == IF r.generative_calls = 1
                    THEN <<Event("select", "generate", 0)>> ELSE <<>>
           run == [main_run EXCEPT !.analysis = r.analysis,
                                   !.selected_articles = selected_articles]
       IN  /\ manager' = IF enhanced = <<>> THEN manager ELSE mgr
           /\ limits' = IF enhanced = <<>> THEN limits
                        ELSE calculate_dynamic_limits(analyzer, mgr, system_prompt,
                                                      text_of(SampleUserPromptLen))
           /\ main_run' =
                 IF write_ok
                 THEN [run EXCEPT
                          !.pc = next_stage("select"),
                          !.podcast_articles =
                              choose_podcast_articles(selected_articles, enhanced),
                          !.log = @ \o calls \o <<Event("select", "write", 0)>>]
                 ELSE main_fails(run, "select", "write", "Exception", calls)
    /\ UNCHANGED <<SELECTED_MODEL, analyzer, search_modes, prompt_cache, files>>
    /\ UNCHANGED notMain

\* main, Step 4: the script is composed and the transcript written
MainCompose(gen, write_ok) ==
    /\ main_run.pc = "compose"
    /\ LET r == create_podcast_script(main_run.podcast_articles, prompt_files,
                                      prompt_cache, gen)
           calls == IF r.generative_calls = 1
                    THEN <<Event("compose", "generate", 0)>> ELSE <<>>
           run == [main_run EXCEPT !.composed_from = main_run.podcast_articles,
                                   !.script = r.script]
       IN  /\ manager' = IF main_run.podcast_articles = <<>> THEN manager
                         ELSE setup_client(manager, SELECTED_MODEL)
           /\ prompt_cache' = r.cache
           /\ main_run' =
                 IF r.raised THEN main_fails(run, "compose", "generate", "Exception", calls)
                 ELSE IF write_ok
                 THEN [run EXCEPT !.pc = next_stage("compose"),
                                  !.log = @ \o calls \o <<Event("compose", "write", 0)>>]
                 ELSE main_fails(run, "compose", "write", "Exception", calls)
    /\ UNCHANGED <<SELECTED_MODEL, analyzer, limits, search_modes, files>>
    /\ UNCHANGED notMain

\* main, Step 5: the script is synthesized chunk after chunk; the run returns
\* True when the audio file is there
MainSynthesize(synth) ==
    /\ main_run.pc = "synthesize"
    /\ LET text == script_text(main_run.script)
           n == requests(main_run.provider, text)
           r == IF main_run.provider = "elevenlabs"
                THEN generate_chunked_audio(files, synth, n + 1)
                ELSE generate_audio_from_long_text(files, text, synth, n + 1)
           asked == [k \in 1..Min(first_failure(synth), n) |->
                        Event("synthesize", "synthesize", k)]
       IN  /\ synth \in [1..n -> MainSynthOutcomes]
           /\ files' = r.files
           /\ main_run' =
                 IF r.raised THEN main_fails(main_run, "synthesize", "synthesize", "Exception", asked)
                 ELSE [main_run EXCEPT
                          !.pc = next_stage("synthesize"),
                          !.result = "True",
                          !.audio_file = r.returned,
                          !.log = @ \o asked \o <<Event("synthesize", "write", 0)>>]
    /\ UNCHANGED <<budgetVars, search_modes, prompt_cache>>
    /\ UNCHANGED notMain

MainNext ==
    \/ \E args \in MainArgs, keys \in SUBSET Credentials : MainStart(args, keys)
    \/ \E all_articles \in MainCollected : MainCollect(all_articles)
    \/ \E kept \in FilterResults(main_run.all_articles), write_ok \in BOOLEAN :
          MainFilter(kept, write_ok)
    \/ \E o \in MainOutcomes : MainEnhanceArticle(o)
    \/ \E write_ok \in BOOLEAN : MainEnhanceDone(write_ok)
    \/ \E gen \in AnalysisOutcomes, write_ok \in BOOLEAN : MainSelect(gen, write_ok)
    \/ \E gen \in {"error", "script"}, write_ok \in BOOLEAN : MainCompose(gen, write_ok)
    \/ \E synth \in SeqsUpTo(MainSynthOutcomes, 3) : MainSynthesize(synth)

\* ------------------------------------------------------------------------
\* utils/helpers.py: clean_text_for_audio
\* ------------------------------------------------------------------------

\* A text to clean is a sequence of pieces, each a short string of characters of
\* one kind: the word "http", the letter "s", "://", a period, a colon, a space,
\* a newline, the markdown characters "#" and "_", and "@" for a character that
\* is neither a word character, whitespace nor one of . , ! ? ; : - ( )
CleanPieces == {"http", "s", "://", ".", " ", "\n", "#", "_", "@"}

\* \s
IsSpace(c) == c \in {" ", "\n"}

\* the end of the run of non-whitespace pieces that starts at position i
RECURSIVE end_of_nonspace(_, _)
end_of_nonspace(text, i) ==
    IF i > Len(text) \/ IsSpace(text[i]) THEN i - 1 ELSE end_of_nonspace(text, i + 1)

\* the position of "://" when http[s]?://\S+ matches at position i, 0 otherwise
url_at(text, i) ==
    LET colon == IF i + 1 <= Len(text) /\ text[i + 1] = "://" THEN i + 1
                 ELSE IF /\ i + 2 <= Len(text)
                         /\ text[i + 1] = "s" /\ text[i + 2] = "://" THEN i + 2
                 ELSE 0
    IN  IF /\ text[i] = "http" /\ colon # 0
           /\ colon + 1 <= Len(text) /\ ~IsSpace(text[colon + 1])
        THEN colon ELSE 0

\* re.sub(r'http[s]?://\S+', '', text), scanning from position i
RECURSIVE remove_urls(_, _)
remove_urls(text, i) ==
    IF i > Len(text) THEN <<>>
    ELSE IF url_at(text, i) # 0
    THEN remove_urls(text, end_of_nonspace(text, url_at(text, i) + 1) + 1)
    ELSE <<text[i]>> \o remove_urls(text, i + 1)

\* re.sub(r'[#*_`]', '', text)
remove_markdown(text) == SelectSeq(text, LAMBDA c : c \notin {"#", "_"})

\* re.sub(r'\s+', ' ', text): every run of whitespace becomes one space
RECURSIVE collapse_whitespace(_, _)
collapse_whitespace(text, i) ==
    IF i > Len(text) THEN <<>>
    ELSE IF IsSpace(text[i])
    THEN IF i > 1 /\ IsSpace(text[i - 1]) THEN collapse_whitespace(text, i + 1)
         ELSE <<" ">> \o collapse_whitespace(text, i + 1)
    ELSE <<text[i]>> \o collapse_whitespace(text, i + 1)

\* re.sub(r'[^\w\s.,!?;:\-()]', '', text): "@" goes, "#" goes, the slashes of
\* "://" go and its colon stays
RECURSIVE remove_special(_)
remove_special(text) ==
    IF text = <<>> THEN <<>>
    ELSE (IF text[1] \in {"@", "#"} THEN <<>>
          ELSE IF text[1] = "://" THEN <<":">>
          ELSE <<text[1]>>) \o remove_special(Tail(text))

\* str.strip()
RECURSIVE strip_spaces(_)
strip_spaces(text) ==
    IF text = <<>> THEN <<>>
    ELSE IF IsSpace(text[1]) THEN strip_spaces(Tail(text))
    ELSE IF IsSpace(text[Len(text)]) THEN strip_spaces(SubSeq(text, 1, Len(text) - 1))
    ELSE text

\* helpers.clean_text_for_audio: the four substitutions in the order of the
\* code, then strip
clean_text_for_audio(text) ==
    strip_spaces(remove_special(collapse_whitespace(
        remove_markdown(remove_urls(text, 1)), 1)))

\* longest text given to clean_text_for_audio, in pieces
MaxCleanLen == 5

\* clean_text_for_audio before its call, on any text
CleanRuns ==
    [done : {FALSE}, text : SeqsUpTo(CleanPieces, MaxCleanLen), output : {<<>>}]

\* a call of clean_text_for_audio
CleanTextForAudio ==
    /\ ~clean_run.done
    /\ clean_run' = [clean_run EXCEPT !.done = TRUE,
                                      !.output = clean_text_for_audio(clean_run.text)]
    /\ UNCHANGED notClean

CleanNext == CleanTextForAudio

\* ------------------------------------------------------------------------
\* Specifications: one per component, the others kept at their initial value
\* ------------------------------------------------------------------------

\* The state after construction. The component under study starts from any of
\* its configurations and inputs; the others start from their defaults.
Start(component) ==
    /\ SELECTED_MODEL = "openai"
    /\ manager = NoManager
    /\ analyzer = NoAnalyzer
    /\ limits = NoLimits
    /\ search_modes \in IF component = "collect" THEN SearchModes
                        ELSE {DefaultSearchModes}
    /\ filtering_settings \in
          [max_articles_per_category :
               IF component = "collect" THEN MaxPerCategoryChoices ELSE {2},
           min_relevance_score :
               IF component = "filter" THEN MinScoreChoices ELSE {1}]
    /\ collect = NoCollect
    /\ relevance_keywords \in IF component = "filter" THEN KeywordLists
                              ELSE {<< <<"a">>, <<"b">> >>}
    /\ MAX_ARTICLES \in IF component = "filter" THEN MaxArticlesChoices ELSE {5}
    /\ filter_run \in IF component = "filter" THEN FilterInputs
                      ELSE {[done |-> FALSE, input |-> <<>>, output |-> <<>>]}

    /\ now = 0
    /\ cache_rows = {}
    /\ enhance_run = NoEnhanceRun
    /\ last_pass = NoPass
    /\ select_run \in IF component = "select" THEN SelectRuns
                      ELSE {[done |-> FALSE, articles |-> <<>>, analysis_text |-> <<>>,
                             articles_by_category |-> <<>>, selected |-> <<>>]}
    /\ split_run \in IF component = "split" THEN SplitRuns
                     ELSE {[done |-> FALSE, splitter |-> "elevenlabs", text |-> <<>>,
                            chunks |-> <<>>]}
    /\ files = NoFiles
    /\ audio_run = NoAudioRun
    /\ prompt_files = [n \in PromptNames |-> "template"]
    /\ prompt_cache = [n \in PromptNames |-> None]
    /\ script_run = NoScriptRun
    /\ analyze_run = NoAnalyzeRun
    /\ main_run = NoMainRun
    /\ clean_run \in IF component = "clean" THEN CleanRuns
                     ELSE {[done |-> FALSE, text |-> <<>>, output |-> <<>>]}

SpecBudget == Start("budget") /\ [][BudgetNext]_vars

SpecCollect == Start("collect") /\ [][CollectNext]_vars

SpecFilter == Start("filter") /\ [][FilterNext]_vars

SpecEnhance == Start("enhance") /\ [][EnhanceNext]_vars

SpecSelect == Start("select") /\ [][SelectNext]_vars

SpecSplit == Start("split") /\ [][SplitNext]_vars

SpecAudio == Start("audio") /\ [][AudioNext]_vars

SpecScript == Start("script") /\ [][ScriptNext]_vars

SpecAnalyze == Start("analyze") /\ [][AnalyzeNext]_vars

SpecMain == Start("main") /\ [][MainNext]_vars

SpecClean == Start("clean") /\ [][CleanNext]_vars

\* ------------------------------------------------------------------------
\* Properties
\* ------------------------------------------------------------------------


\* C1: for each backend profile and all prompts, the pair returned by
\* _calculate_dynamic_limits has max_message_tokens + completion_tokens within
\* the context window: within the analyzer's max_context_tokens always, which is
\* the profile's own context window when the analyzer was built under the
\* profile that is active at the call.
C1_BudgetWithinContext ==
    limits.profile # None =>
        /\ limits.max_message_tokens + limits.completion_tokens
              <= analyzer.max_context_tokens
        /\ analyzer.built = limits.profile =>
              limits.max_message_tokens + limits.completion_tokens
                 <= configure_for_model(limits.profile).max_input_tokens

\* C1 witness: a budget was computed under each kind of profile
C1_Witness ==
    /\ limits.profile = "gemini-flash"
    /\ analyzer.built = "gemini-flash"
    /\ limits.completion_tokens = 8000
    /\ limits.max_message_tokens = 500000

\* first position of a URL in a list of articles
FirstIndex(articles, u) ==
    CHOOSE i \in 1..Len(articles) :
        articles[i].url = u /\ \A j \in 1..(i - 1) : articles[j].url # u

\* C2: collect_daily_news returns every URL of the merged results exactly once
\* (results without a URL are left out), the article kept for a URL is the first
\* one of the merged list (query order, then result order) with all its fields,
\* category included, and the kept articles are in first-seen order.
C2_DedupFirstSeen ==
    collect.done =>
        LET all == collect.all_articles
            out == collect.unique_articles
            urls == {all[i].url : i \in 1..Len(all)} \ {""}
            pos(q) == CHOOSE k \in 1..Len(collect.issued) : collect.issued[k] = q
        IN  /\ \A u \in urls : Cardinality({j \in 1..Len(out) : out[j].url = u}) = 1
            /\ \A j \in 1..Len(out) :
                  /\ out[j].url \in urls
                  /\ out[j] = all[FirstIndex(all, out[j].url)]
            /\ \A j, k \in 1..Len(out) :
                  j < k => FirstIndex(all, out[j].url) < FirstIndex(all, out[k].url)
            /\ \A i, j \in 1..Len(all) :
                  i < j => pos(all[i].search_query) <= pos(all[j].search_query)

\* C2 witness: two queries returned the same URL with different fields, and the
\* result holds two articles
C2_Witness ==
    /\ collect.done
    /\ Len(collect.unique_articles) = 2
    /\ \E i, j \in 1..Len(collect.all_articles) :
          /\ i < j
          /\ collect.all_articles[i].url = collect.all_articles[j].url
          /\ collect.all_articles[i].url # ""
          /\ collect.all_articles[i].title # collect.all_articles[j].title
          /\ collect.all_articles[i].category # collect.all_articles[j].category
          /\ collect.all_articles[i] = collect.unique_articles[2]

\* the article of the input at position i, as the filter returns it
Scored(i) ==
    [title |-> filter_run.input[i].title, snippet |-> filter_run.input[i].snippet,
     relevance_score |-> relevance_score(filter_run.input[i], relevance_keywords)]

\* C5: filter_relevant_articles returns exactly the articles that score at least
\* min_relevance_score, by descending score with equal scores in input order, cut
\* to the first max_articles: the article of rank r among the kept ones is at
\* position r + 1 of the result when r < max_articles, and nothing else is returned.
C5_FilterSortTruncate ==
    filter_run.done =>
        LET out == filter_run.output
            kept == {i \in 1..Len(filter_run.input) :
                        Scored(i).relevance_score
                            >= filtering_settings.min_relevance_score}
            rank(i) == Cardinality({j \in kept :
                          \/ Scored(j).relevance_score > Scored(i).relevance_score
                          \/ /\ Scored(j).relevance_score = Scored(i).relevance_score
                             /\ j < i})
        IN  /\ Len(out) = Min(Cardinality(kept), MAX_ARTICLES)
            /\ \A i \in kept : rank(i) < MAX_ARTICLES => out[rank(i) + 1] = Scored(i)

\* C5 witness: scores [2,0,1] filtered with min score 1 give [2,1]
C5_Witness ==
    /\ filter_run.done
    /\ filtering_settings.min_relevance_score = 1
    /\ Len(filter_run.input) = 3
    /\ Scored(1).relevance_score = 2
    /\ Scored(2).relevance_score = 0
    /\ Scored(3).relevance_score = 1
    /\ filter_run.output = <<Scored(1), Scored(3)>>

\* ------------------------------------------------------------------------
\* Enhancer cache
\* ------------------------------------------------------------------------

\* the step is one round of the loop of enhance_articles
EnhanceStep == enhance_run'.i = enhance_run.i + 1 /\ enhance_run'.input = enhance_run.input

\* the article the round is about, and what the round did with it
StepArticle == enhance_run.input[enhance_run.i]
StepOutput == enhance_run'.output[enhance_run.i]
StepCalls == enhance_run'.calls[enhance_run.i]

\* the round is a second pass over the URL of the latest pass, within the
\* freshness window of what that pass yielded, storage working in both
SecondPassInWindow ==
    /\ EnhanceStep
    /\ StepArticle.url # ""
    /\ last_pass.url = StepArticle.url
    /\ last_pass.since > now - max_age_hours
    /\ ~last_pass.put_failed
    /\ ~StepCalls.lookup_failed

\* the round is the first of a call of enhance_articles: the latest pass was
\* made by an earlier call
LaterCall == enhance_run.i = 1

\* the second pass makes no call and yields what the first pass yielded
SecondPassIsCacheHit ==
    /\ StepCalls.fetches = 0
    /\ StepCalls.generations = 0
    /\ StepOutput.summary = last_pass.summary

\* C3 as stated: whatever the outcome of the first pass (fetch success or
\* failure, generative success or failure), a second pass over the same URL
\* within the freshness window makes no page fetch and no generative call and
\* yields the same summary.
C3_AnyFirstPassOutcome ==
    [][SecondPassInWindow /\ LaterCall => SecondPassIsCacheHit]_vars

\* C3 (amended): when the first pass obtained the page text (or took the summary
\* from the cache) and its summary is not blank, whether the generative call
\* succeeded or failed, a second pass over the same URL within the freshness
\* window, storage working, makes no page fetch and no generative call and
\* yields the same summary.
C3_CacheIdempotence ==
    [][(/\ SecondPassInWindow
        /\ last_pass.method \in {"cache", "gpt_generated"}
        /\ last_pass.summary # "")
            => SecondPassIsCacheHit /\ StepOutput.enhancement_method = "cache"]_vars

\* a later call of enhance_articles has answered from the cache with the
\* placeholder a failed generative call left there
C3_Witness ==
    /\ enhance_run.i > 1
    /\ LET k == 1
       IN  /\ enhance_run.output[k].enhancement_method = "cache"
           /\ enhance_run.output[k].summary = FailurePlaceholder
           /\ enhance_run.calls[k].fetches = 0
           /\ enhance_run.calls[k].generations = 0

\* C4: a row whose fetched_at is not later than now minus the freshness window
\* is absent for _get_cached_summary, and enhance_articles then fetches the page
\* again; the lookup leaves the stale row in place, and the next put for the URL
\* replaces it.
C4_CacheExpiry ==
    [][EnhanceStep /\ StepArticle.url # "" =>
        LET url == StepArticle.url
            old == rows_of(cache_rows, url)
            stale == old # {} /\ \A r \in old : r.fetched_at <= now - max_age_hours
        IN  stale =>
              /\ get_cached_summary(cache_rows, url, now, FALSE) = None
              /\ StepCalls.fetches = 1
              /\ StepOutput.enhancement_method # "cache"
              /\ IF StepCalls.puts = 1 /\ ~StepCalls.put_failed
                 THEN /\ rows_of(cache_rows', url) =
                            {[url_hash |-> get_url_hash(url), url |-> url,
                              summary |-> StepOutput.summary, fetched_at |-> now]}
                      /\ cache_rows' \ rows_of(cache_rows', url) = cache_rows \ old
                 ELSE cache_rows' = cache_rows]_vars

\* a stale row has been met by the lookup, the page fetched again and the row
\* replaced
C4_Witness ==
    /\ enhance_run.i > 1
    /\ LET k == enhance_run.i - 1
           url == enhance_run.input[k].url
       IN  /\ enhance_run.calls[k].stale
           /\ enhance_run.calls[k].fetches = 1
           /\ enhance_run.calls[k].puts = 1
           /\ \E r \in rows_of(cache_rows, url) : r.fetched_at = now /\ now >= max_age_hours

\* ------------------------------------------------------------------------
\* Selection extraction
\* ------------------------------------------------------------------------

\* the URLs written in the response after a marker and one space
UrlsAfterMarker(text) ==
    {text[i + 2] : i \in {j \in 1..Len(text) - 2 :
                            /\ text[j] = Marker /\ text[j + 1] = Space
                            /\ text[j + 2] \in HttpUrls}}

\* those of them whose marker is bulleted
UrlsAfterBulletedMarker(text) ==
    {text[i + 2] : i \in {j \in 3..Len(text) - 2 :
                            /\ text[j - 2] = Bullet /\ text[j - 1] = Space
                            /\ text[j] = Marker /\ text[j + 1] = Space
                            /\ text[j + 2] \in HttpUrls}}

\* the position of an article in the list the selector was given
InputPosition(a) ==
    CHOOSE k \in 1..Len(select_run.articles) : select_run.articles[k].title = a.title

\* the selection is exactly the articles of the list whose url is in urls, once
\* each and flagged, by ascending index of their category in the canonical list
\* (unknown categories last), articles of one category in the order of the list
SelectionIs(urls) ==
    LET out == select_run.selected
        wanted == {a \in Range(select_run.articles) : a.url \in urls}
    IN  /\ Len(out) = Cardinality(wanted)
        /\ \A a \in wanted :
              \E k \in 1..Len(out) : out[k] = [a EXCEPT !.selected_for_podcast = TRUE]
        /\ \A j, k \in 1..Len(out) :
              j < k =>
                /\ get_category_order(out[j]) <= get_category_order(out[k])
                /\ out[j].category = out[k].category
                      => InputPosition(out[j]) < InputPosition(out[k])

\* C6 as stated: the selection is exactly the articles whose url is written after
\* a **URL:** marker in the response, flagged and in canonical category order.
C6_AnyMarkerSelects ==
    select_run.done => SelectionIs(UrlsAfterMarker(select_run.analysis_text))

\* C6 (amended): the selection is exactly the articles whose url is written after
\* a bulleted **URL:** marker or, when the response has no bulleted marker with a
\* URL, after an un-bulleted one; each is flagged selected_for_podcast, they come
\* by ascending index of their category in the canonical list, unknown categories
\* last, articles of one category in input order.
C6_SelectorExtraction ==
    select_run.done =>
        SelectionIs(IF UrlsAfterBulletedMarker(select_run.analysis_text) # {}
                    THEN UrlsAfterBulletedMarker(select_run.analysis_text)
                    ELSE UrlsAfterMarker(select_run.analysis_text))

\* two articles given as (Breaches, APTs) have been selected from un-bulleted
\* markers and come back as (APTs, Breaches)
C6_Witness ==
    /\ select_run.done
    /\ UrlsAfterBulletedMarker(select_run.analysis_text) = {}
    /\ Len(select_run.articles) >= 2
    /\ select_run.articles[1].title = "t1"
    /\ select_run.articles[2].title = "t2"
    /\ Len(select_run.selected) = 2
    /\ select_run.selected[1].title = "t2"
    /\ select_run.selected[2].title = "t1"
    /\ select_run.selected[1].selected_for_podcast

\* ------------------------------------------------------------------------
\* Text splitting
\* ------------------------------------------------------------------------

\* every word of the text (a maximal run without whitespace) is at most half of
\* max_chars long, so that a split at word boundaries can bring every piece
\* within max_chars
WordsFit(text) ==
    \A k \in 1..Len(split_words(text)) : 2 * StrLen(split_words(text)[k]) <= max_chars

\* C9: every chunk returned by _split_text_into_chunks has length <= max_chars,
\* including the chunks produced when a sentence longer than max_chars is split
\* at word boundaries (stated here for the texts whose words are at most half of
\* max_chars long).
C9_ChunksWithinMaxChars ==
    (split_run.done /\ split_run.splitter = "elevenlabs" /\ WordsFit(split_run.text))
        => \A k \in 1..Len(split_run.chunks) : StrLen(split_run.chunks[k]) <= max_chars

\* ------------------------------------------------------------------------
\* Chunk reassembly
\* ------------------------------------------------------------------------

\* the call synthesized its text in chunks (not straight into the output file)
\* and the backend answered for every chunk
AllChunksSynthesized ==
    /\ audio_run.done
    /\ audio_run.provider = "elevenlabs" \/ ~validate_text_length(audio_run.text)
    /\ \A i \in 1..Len(audio_run.synth) : audio_run.synth[i].ok

\* reassembly succeeded: the output file was produced and returned
Reassembled ==
    /\ AllChunksSynthesized
    /\ ~audio_run.raised
    /\ audio_run.returned = FinalPath

\* the sizes of the chunk files, their sum, and the sum of what is left of the
\* later ones behind their first HeaderSkip bytes
ChunkSize(i) == audio_run.synth[i].size

RECURSIVE SumSizes(_)
SumSizes(n) == IF n = 0 THEN 0 ELSE ChunkSize(n) + SumSizes(n - 1)

RECURSIVE SumLaterRest(_)
SumLaterRest(n) ==
    IF n <= 1 THEN 0 ELSE Max(0, ChunkSize(n) - HeaderSkip) + SumLaterRest(n - 1)

\* the bytes of chunk 1, then of every later chunk its bytes from HeaderSkip on
RECURSIVE ExpectedContent(_)
ExpectedContent(n) ==
    IF n = 0 THEN <<>>
    ELSE IF n = 1 THEN synthesized(1, ChunkSize(1))
    ELSE ExpectedContent(n - 1)
            \o (IF ChunkSize(n) > HeaderSkip
                THEN <<[chunk |-> n, from |-> HeaderSkip, to |-> ChunkSize(n)]>>
                ELSE <<>>)

\* C7 as stated: for chunk files of any sizes the final byte count is
\* sum(chunk sizes) - 1024 * (n - 1).
C7_ByteCountAnySizes ==
    Reassembled =>
        ByteCount(files.final.content) =
            SumSizes(Len(audio_run.synth)) - HeaderSkip * (Len(audio_run.synth) - 1)

\* C7 (amended): successful reassembly of n >= 1 chunk files writes the first
\* chunk's bytes followed, in chunk order, by each later chunk's bytes without
\* its first 1024 bytes (nothing of a later chunk of at most 1024 bytes); the
\* byte count is size(1) + sum over later chunks of max(0, size - 1024), which
\* is sum(sizes) - 1024 * (n - 1) when every later chunk has at least 1024
\* bytes; with n = 1 the final file is byte-identical to the single chunk.
C7_ChunkReassembly ==
    Reassembled =>
        LET n == Len(audio_run.synth)
        IN  /\ files.final.exists
            /\ files.final.content = ExpectedContent(n)
            /\ ByteCount(files.final.content) = ChunkSize(1) + SumLaterRest(n)
            /\ (\A i \in 2..n : ChunkSize(i) >= HeaderSkip)
                  => ByteCount(files.final.content) = SumSizes(n) - HeaderSkip * (n - 1)
            /\ n = 1 => files.final.content = synthesized(1, ChunkSize(1))

\* three chunks have been reassembled, one later chunk longer than the skip and
\* one shorter
C7_Witness ==
    /\ Reassembled
    /\ Len(audio_run.synth) = 3
    /\ ChunkSize(1) > 0
    /\ ChunkSize(2) > HeaderSkip
    /\ ChunkSize(3) > 0 /\ ChunkSize(3) < HeaderSkip
    /\ Len(files.final.content) = 2

\* C8: when the byte concatenation of several chunks fails, the first chunk's
\* path is returned, and after the call has returned that file and every other
\* temporary chunk file still exist.
C8_ChunksKeptOnFailure ==
    (/\ AllChunksSynthesized
     /\ Len(audio_run.synth) >= 2
     /\ audio_run.fail_at <= Len(audio_run.synth))
        => /\ ~audio_run.raised
           /\ audio_run.returned = ChunkPath(1)
           /\ \A i \in 1..Len(audio_run.synth) : files.chunk[i].exists

\* ------------------------------------------------------------------------
\* Script composition
\* ------------------------------------------------------------------------

\* a step of the composition failed: one of the two prompts could not be built,
\* or the generative call failed
CompositionFailed ==
    /\ script_run.done
    /\ script_run.articles # <<>>
    /\ \/ script_run.raised
       \/ script_run.script.kind = "fallback"

\* C10: create_podcast_script returns the fixed, non-empty fallback script,
\* without raising, whenever the article list is empty or any step of script
\* composition fails (prompt construction or the generative call); with an empty
\* article list no generative call is made. (Stated for the calls that find the
\* fallback prompt itself loadable.)
C10_FallbackOnAnyFailure ==
    (script_run.done /\ script_run.fallback_loadable)
        => /\ (script_run.articles = <<>> \/ CompositionFailed)
                => /\ ~script_run.raised
                   /\ script_run.script.kind = "fallback"
           /\ script_run.articles = <<>> => script_run.generative_calls = 0

\* ------------------------------------------------------------------------
\* Enhancer: failure isolation
\* ------------------------------------------------------------------------

\* the call of enhance_articles has gone through its whole list
EnhanceReturned ==
    /\ enhance_run.input # <<>>
    /\ enhance_run.i > Len(enhance_run.input)

\* the page of article k could not be fetched or no text could be extracted
FetchFailed(k) ==
    enhance_run.calls[k].fetches = 1 /\ enhance_run.calls[k].generations = 0

\* C11: whatever the per-article cache, fetch, extraction and generative
\* failures, every round of the loop adds the article it was given, so that
\* enhance_articles returns the same articles in the same order and number; an
\* article whose fetch or extraction failed keeps its snippet as summary with
\* enhancement_method = fetch_failed, one whose generative call failed has the
\* failure placeholder as summary.
C11_FailureIsolation ==
    /\ Len(enhance_run.output) = enhance_run.i - 1
    /\ Len(enhance_run.calls) = enhance_run.i - 1
    /\ enhance_run.i <= Len(enhance_run.input) + 1
    /\ \A k \in 1..Len(enhance_run.output) :
          LET in == enhance_run.input[k]
              out == enhance_run.output[k]
          IN  /\ out.url = in.url
              /\ out.snippet = in.snippet
              /\ FetchFailed(k) =>
                    /\ out.enhancement_method = "fetch_failed"
                    /\ out.summary = in.snippet
                    /\ out.enhanced = "False"
              /\ enhance_run.calls[k].generation_failed =>
                    /\ out.enhancement_method = "gpt_generated"
                    /\ out.summary = FailurePlaceholder

\* a call on two articles has returned, the first with a failed fetch, the
\* second with a failed generative call after a failed cache lookup and before
\* a failed cache write
C11_Witness ==
    /\ EnhanceReturned
    /\ Len(enhance_run.input) = 2
    /\ enhance_run.input[1].url # enhance_run.input[2].url
    /\ FetchFailed(1)
    /\ enhance_run.calls[2].generation_failed
    /\ enhance_run.calls[2].lookup_failed
    /\ enhance_run.calls[2].put_failed

\* ------------------------------------------------------------------------
\* Speech synthesis: a chunk that fails
\* ------------------------------------------------------------------------

\* a synthesis of several chunks in which the backend fails for exactly one
OneChunkFails ==
    /\ audio_run.done
    /\ audio_run.provider = "elevenlabs" \/ ~validate_text_length(audio_run.text)
    /\ Len(audio_run.synth) >= 2
    /\ \E i \in 1..Len(audio_run.synth) :
          /\ ~audio_run.synth[i].ok
          /\ \A j \in 1..Len(audio_run.synth) : j # i => audio_run.synth[j].ok

\* C13: when the speech backend fails for one chunk of a synthesis of several
\* chunks, the call does not raise and an audio file is produced and returned.
C13_ChunkFailureRecovered ==
    OneChunkFails
        => /\ ~audio_run.raised
           /\ audio_run.returned # NoPath
           /\ path_exists(files, audio_run.returned)

\* ------------------------------------------------------------------------
\* Collector: a search request that fails
\* ------------------------------------------------------------------------

\* the articles of the merged list that came from the k-th query
FromQuery(k) ==
    SelectSeq(collect.all_articles, LAMBDA a : a.search_query = collect.issued[k])

\* C14: a search request that fails gives the empty list for its query; the
\* collection still issues every configured query in the configured order, the
\* merged list holds what each query returned (capped per category in
\* Google-dorks mode), and the result is that list without duplicate URLs.
C14_SearchFailureIsolated ==
    collect.done =>
        /\ collect.issued = get_active_search_queries(search_modes)
        /\ Len(collect.found) = Len(collect.issued)
        /\ \A k \in 1..Len(collect.issued) :
              /\ collect.issued[k] \in collect.failed => collect.found[k] = 0
              /\ Len(FromQuery(k)) =
                    IF is_search_mode_enabled(search_modes, "google_dorks")
                    THEN Min(collect.found[k], filtering_settings.max_articles_per_category)
                    ELSE collect.found[k]
        /\ \A i, j \in 1..Len(collect.unique_articles) :
              i # j => collect.unique_articles[i].url # collect.unique_articles[j].url
        /\ {collect.unique_articles[i].url : i \in 1..Len(collect.unique_articles)}
              = {collect.all_articles[i].url : i \in 1..Len(collect.all_articles)} \ {""}

\* the first of two queries failed, the second returned the same URL twice, and
\* the result holds it once
C14_Witness ==
    /\ collect.done
    /\ Len(collect.issued) = 2
    /\ collect.issued[1] \in collect.failed
    /\ collect.issued[2] \notin collect.failed
    /\ collect.found[2] = 2
    /\ Len(collect.all_articles) = 2
    /\ Len(collect.unique_articles) = 1

\* ------------------------------------------------------------------------
\* Enhancer: the summary of a returned article
\* ------------------------------------------------------------------------

\* C17: every article enhance_articles has put in its result carries a summary
\* that is present and not empty, whichever path the article took.
C17_SummaryPresent ==
    \A k \in 1..Len(enhance_run.output) :
        /\ enhance_run.output[k].summary # None
        /\ enhance_run.output[k].summary # ""

\* ------------------------------------------------------------------------
\* Enhancer: storage errors of the cache
\* ------------------------------------------------------------------------

\* C19: a storage error during the lookup is a miss (the round goes on to fetch
\* the page), a storage error during the write is swallowed (the rows stay as
\* they were); in both cases the round returns the article, and when its page
\* was fetched the article carries the summary generated in this round.
C19_StorageErrorsTolerated ==
    [][EnhanceStep =>
          /\ StepCalls.lookup_failed =>
                /\ StepOutput.enhancement_method # "cache"
                /\ StepCalls.fetches = 1
          /\ StepCalls.put_failed => cache_rows' = cache_rows
          /\ (StepCalls.lookup_failed \/ StepCalls.put_failed) =>
                /\ Len(enhance_run'.output) = enhance_run.i
                /\ StepOutput.url = StepArticle.url
                /\ StepCalls.generations = 1 =>
                      /\ StepOutput.enhancement_method = "gpt_generated"
                      /\ StepOutput.summary = StepCalls.generated
                      /\ StepCalls.generated # None]_vars

\* an article was returned with a summary generated in a round whose cache
\* lookup and cache write both met a storage error, while the cache held a
\* row of its URL
C19_Witness ==
    \E k \in 1..Len(enhance_run.output) :
        /\ enhance_run.calls[k].lookup_failed
        /\ enhance_run.calls[k].put_failed
        /\ enhance_run.calls[k].generations = 1
        /\ enhance_run.output[k].summary \in {"S1", "S2"}
        /\ rows_of(cache_rows, enhance_run.output[k].url) # {}
        /\ \A r \in rows_of(cache_rows, enhance_run.output[k].url) :
              r.summary # enhance_run.output[k].summary

\* ------------------------------------------------------------------------
\* Splitting a long text at sentence ends
\* ------------------------------------------------------------------------

\* the sentences of a text: what lies between two ". ", each with its period
Sentences(text) ==
    LET pieces == split_sentences(text)
    IN  [k \in 1..Len(pieces) |->
            IF k < Len(pieces) THEN Append(pieces[k], Dot) ELSE pieces[k]]

\* the chunk holds one single sentence of the text, which alone is longer than
\* the limit
OversizedSentence(chunk, text, limit) ==
    \E k \in 1..Len(Sentences(text)) :
        /\ StrLen(Sentences(text)[k]) > limit
        /\ chunk = strip(split_sentences(text)[k] \o <<Dot, Blank>>)

\* C20: for a text longer than max_chars, every chunk split_long_text returns is
\* at most max_chars long, unless the chunk is one single sentence that alone is
\* longer than max_chars.
C20_LongTextChunksWithinLimit ==
    (/\ split_run.done
     /\ split_run.splitter = "openai"
     /\ StrLen(split_run.text) > openai_max_chars)
        => \A k \in 1..Len(split_run.chunks) :
              \/ StrLen(split_run.chunks[k]) <= openai_max_chars
              \/ OversizedSentence(split_run.chunks[k], split_run.text, openai_max_chars)

\* ------------------------------------------------------------------------
\* Category selection: the prompt that stays over the cap
\* ------------------------------------------------------------------------

\* the analysis was asked for articles whose prompt, after the trimming pass,
\* still counts more tokens than the max_message_tokens of the analyzer
PromptOverCap ==
    /\ analyze_run.calls = 1
    /\ analyze_run.articles # <<>>
    /\ analyze_run.result.total_message_tokens > analyze_run.cap

\* the first article of a category in the list given to the analysis
FirstOfCategory(c) ==
    analyze_run.articles[
        CHOOSE i \in 1..Len(analyze_run.articles) :
            /\ analyze_run.articles[i].category = c
            /\ \A j \in 1..(i - 1) : analyze_run.articles[j].category # c]

\* C16: when the prompt is still over the cap after trimming, no generative
\* call is made and the emergency summary is returned: one line for each
\* category of the input, naming the first article of that category, and the
\* selection is made of exactly those first articles.
C16_EmergencyFallback ==
    PromptOverCap =>
        LET r == analyze_run.result
            categories == {analyze_run.articles[i].category :
                               i \in 1..Len(analyze_run.articles)}
        IN  /\ r.generative_calls = 0
            /\ r.analysis.kind = "emergency"
            /\ Len(r.analysis.lines) = Cardinality(categories)
            /\ {r.analysis.lines[k].category : k \in 1..Len(r.analysis.lines)} = categories
            /\ \A k \in 1..Len(r.analysis.lines) :
                  r.analysis.lines[k].title = FirstOfCategory(r.analysis.lines[k].category).title
            /\ Len(r.selected) = Len(r.analysis.lines)
            /\ \A k \in 1..Len(r.selected) :
                  r.selected[k] = FirstOfCategory(r.analysis.lines[k].category)

\* two long articles of one category were trimmed, the prompt stayed over the
\* cap, and the selection is the first of the two
C16_Witness ==
    /\ PromptOverCap
    /\ analyze_run.result.trimmed
    /\ analyze_run.gen.ok
    /\ Len(analyze_run.articles) = 2
    /\ analyze_run.articles[1].category = analyze_run.articles[2].category
    /\ analyze_run.result.selected = <<analyze_run.articles[1]>>
    /\ analyze_run.result.analysis.kind = "emergency"

\* a credential the selected generative profile or the selected speech provider
\* needs is not in the environment of the run
MissingCredential ==
    \/ client_credential(main_run.args.model) \notin main_run.keys
    \/ speech_credential(main_run.provider) \notin main_run.keys

\* C12: for every generative profile and speech provider, a run started without
\* the credential the selected backend needs fails at validation with a
\* non-success result, and no stage executes: no search, fetch, generative or
\* speech call is made
C12_MissingCredentialAbortsRun ==
    (main_run.pc # "idle" /\ MissingCredential)
        => /\ main_run.pc = "done"
           /\ main_run.result = "False"
           /\ main_run.failed_at = "validation"
           /\ main_run.log = <<>>

\* create_podcast_script has been called in the run
Composed ==
    \/ main_run.pc = "synthesize"
    \/ main_run.pc = "done" /\ main_run.failed_at \in {None, "compose", "synthesize"}

\* C15: when the generative call of the category selection fails, the analysis
\* is the error text and the selection is empty, the failure does not end the
\* run, and the script is composed from the full enhanced list; whenever the
\* selection is empty the script is composed from the full enhanced list
C15_SelectionFailureFallsBack ==
    /\ main_run.analysis.kind = "error"
          => /\ main_run.selected_articles = <<>>
             /\ ~(main_run.failed_at = "select" /\ main_run.failed_call = "generate")
             /\ Composed => main_run.composed_from = main_run.enhanced_articles
    /\ (Composed /\ main_run.selected_articles = <<>>)
          => main_run.composed_from = main_run.enhanced_articles

\* the selection call failed for two enhanced articles and the script was
\* generated from both
C15_Witness ==
    /\ main_run.analysis.kind = "error"
    /\ Len(main_run.enhanced_articles) = 2
    /\ main_run.enhanced_articles[1].enhanced = "True"
    /\ main_run.composed_from = main_run.enhanced_articles
    /\ main_run.script.kind = "generated"
    /\ main_run.pc = "synthesize"

\* the positions of the log that hold events of a stage
EventsOf(stage) == {k \in 1..Len(main_run.log) : main_run.log[k].stage = stage}

\* the stage writes an artifact in this run: main writes no file for the
\* collector, and none for the enhancer when enhancement is disabled
WritesArtifact(stage) ==
    /\ stage # "collect"
    /\ ~(stage = "enhance" /\ main_run.args.no_enhancement)

\* C18: the stages execute in the order collect, filter, enhance, select,
\* compose, synthesize; no call of a later stage starts before the previous
\* stages have completed all their calls and written their artifacts; inside a
\* stage the calls per query, per article and per chunk are issued one at a
\* time in input order
C18_StagesInOrder ==
    LET log == main_run.log
    IN  /\ \A j, k \in 1..Len(log) :
              j < k => /\ StageIndex(log[j].stage) <= StageIndex(log[k].stage)
                       /\ log[j].stage = log[k].stage
                             => /\ log[j].call # "write"
                                /\ log[k].call # "write" => log[j].item <= log[k].item
                                /\ log[j].call = log[k].call => log[j].item < log[k].item
        /\ \A k \in 1..Len(log) :
              \A t \in 1..(StageIndex(log[k].stage) - 1) :
                 WritesArtifact(stages[t])
                    => \E j \in 1..(k - 1) : log[j] = Event(stages[t], "write", 0)
        /\ \A k \in 1..Len(log) :
              StageIndex(log[k].stage) > 1
                 => {log[j].item : j \in EventsOf("collect")}
                       = 1..Len(get_active_search_queries(search_modes))
        /\ \A k \in 1..Len(log) :
              (StageIndex(log[k].stage) > 3 /\ ~main_run.args.no_enhancement)
                 => {log[j].item : j \in EventsOf("enhance")} \ {0}
                       = 1..Len(main_run.relevant_articles)
        /\ main_run.pc \in {"idle", "done"}
              \/ \A k \in 1..Len(log) :
                    StageIndex(log[k].stage) <= StageIndex(main_run.pc)
        /\ main_run.result = "True"
              => \A t \in 1..Len(stages) :
                    WritesArtifact(stages[t]) => EventsOf(stages[t]) # {}

\* a successful run over two articles: both were fetched and summarised, the
\* selection and the script were generated and the speech took several chunks
C18_Witness ==
    /\ main_run.result = "True"
    /\ Len(main_run.relevant_articles) = 2
    /\ \A i \in 1..2 : \E k \in EventsOf("enhance") :
          main_run.log[k] = Event("enhance", "generate", i)
    /\ \E k \in EventsOf("select") : main_run.log[k].call = "generate"
    /\ \E k \in EventsOf("compose") : main_run.log[k].call = "generate"
    /\ \E k \in EventsOf("synthesize") : main_run.log[k] = Event("synthesize", "synthesize", 2)
    /\ Cardinality(EventsOf("collect")) > 1

\* the number of keywords that occur in title and snippet when letter case is
\* ignored on both sides
CaseInsensitiveScore(article, keywords) ==
    LET text == Lower(article.title \o <<" ">> \o article.snippet)
    IN  Cardinality({k \in 1..Len(keywords) : Substring(Lower(keywords[k]), text)})

\* C21: the relevance score of every returned article is the number of
\* configured keywords that occur as a substring of its title and snippet with
\* letter case ignored on both sides, for every keyword list, also one that
\* holds keywords written with upper-case letters
C21_ScoreIgnoresCase ==
    filter_run.done =>
        /\ \A k \in 1..Len(filter_run.output) :
              filter_run.output[k].relevance_score
                  = CaseInsensitiveScore(filter_run.output[k], relevance_keywords)
        /\ \A i \in 1..Len(filter_run.input) :
              Scored(i).relevance_score
                  = CaseInsensitiveScore(filter_run.input[i], relevance_keywords)

\* the budget triple an analyzer holds
BudgetTriple(self) ==
    <<self.max_context_tokens, self.max_message_tokens, self.min_completion_tokens>>

\* C22: after any sequence of profile changes, the budget triple the selector
\* uses for a request is the one of the profile active at the request: it is
\* recomputed when the profile changes, not kept from the construction of the
\* ArticleAnalyzer
C22_BudgetFollowsProfile ==
    [][(analyze_run.calls = 0 /\ analyze_run'.calls = 1
           /\ analyze_run'.articles # <<>>)
          => BudgetTriple(analyzer)
                = BudgetTriple(analyzer_init(configure_for_model(SELECTED_MODEL)))]_vars

\* C23: in categorized search mode (google_dorks enabled, alone or together
\* with basic keywords) the articles of the i-th categorized query carry the
\* i-th name of the fixed category list, and at most max_articles_per_category
\* articles of each query are merged into the collection
C23_CategoryByPosition ==
    (collect.done /\ search_modes.google_dorks) =>
        \A i \in 1..Len(GoogleDorks) :
           LET merged == {k \in 1..Len(collect.all_articles) :
                             collect.all_articles[k].search_query = GoogleDorks[i]}
           IN  /\ \A k \in merged : collect.all_articles[k].category = category_names[i]
               /\ Cardinality(merged) <= filtering_settings.max_articles_per_category

\* C24: the selector marks the selection in place: after the call every article
\* of the input list whose URL was matched has selected_for_podcast = TRUE, and
\* the returned selection consists of those same article records
C24_SelectionMarkedInPlace ==
    select_run.done =>
        /\ \A k \in 1..Len(select_run.articles) :
              select_run.articles[k].url \in Range(selected_urls(select_run.analysis_text))
                 => select_run.articles[k].selected_for_podcast
        /\ \A j \in 1..Len(select_run.selected) :
              select_run.selected[j] \in Range(select_run.articles)

\* ------------------------------------------------------------------------
\* Enhancer cache: the table under puts and gets
\* ------------------------------------------------------------------------

\* the URLs that have an entry
CachedUrls == {r.url : r \in cache_rows}

\* the round wrote to the cache
PutStep == EnhanceStep /\ StepCalls.puts = 1 /\ ~StepCalls.put_failed

\* C25: after any sequence of puts and gets the cache holds at most one entry
\* per URL; a put for a URL replaces the earlier entry of that URL and leaves
\* the entries of the other URLs alone; nothing but a put changes the table and
\* the set of URLs with an entry never shrinks; a get within the freshness
\* window returns the summary of the entry, which is the one of the most
\* recent put for the URL (puts and gets that reach the storage; storage
\* errors are the subject of C19)
C25_CacheUpsert ==
    /\ [](\A r1, r2 \in cache_rows : r1.url_hash = r2.url_hash => r1 = r2)
    /\ [](\A r \in cache_rows :
             r.fetched_at > now - max_age_hours
                => get_cached_summary(cache_rows, r.url, now, FALSE) = r.summary)
    /\ []((last_pass.method = "gpt_generated" /\ ~last_pass.put_failed)
             => rows_of(cache_rows, last_pass.url)
                   = {[url_hash |-> get_url_hash(last_pass.url), url |-> last_pass.url,
                       summary |-> last_pass.summary, fetched_at |-> last_pass.since]})
    /\ [][/\ CachedUrls \subseteq {r.url : r \in cache_rows'}
          /\ cache_rows' # cache_rows => PutStep
          /\ PutStep =>
                LET url == StepArticle.url
                IN  /\ rows_of(cache_rows', url)
                          = {[url_hash |-> get_url_hash(url), url |-> url,
                              summary |-> StepCalls.generated, fetched_at |-> now]}
                    /\ cache_rows' \ rows_of(cache_rows', url)
                          = cache_rows \ rows_of(cache_rows, url)]_vars

\* the entry of a URL has been replaced by a second put while another URL
\* kept its entry
C25_Witness ==
    /\ Len(enhance_run.calls) = 2
    /\ enhance_run.input = <<A1, A1>>
    /\ enhance_run.calls[1].puts = 1 /\ ~enhance_run.calls[1].put_failed
    /\ enhance_run.calls[1].generated = "S1"
    /\ enhance_run.calls[2].puts = 1 /\ ~enhance_run.calls[2].put_failed
    /\ enhance_run.calls[2].generated = "S2"
    /\ enhance_run.calls[2].stale
    /\ rows_of(cache_rows, "u1")
          = {[url_hash |-> get_url_hash("u1"), url |-> "u1", summary |-> "S2",
              fetched_at |-> now]}
    /\ rows_of(cache_rows, "u2") # {}

\* ------------------------------------------------------------------------
\* Sanitizing the text for speech
\* ------------------------------------------------------------------------

\* the pieces made of word characters, whitespace and . , ! ? ; : - ( ) only
SpeechPieces == {"http", "s", ".", ":", " ", "\n", "_"}

\* C26: for every input text the output of clean_text_for_audio contains no
\* URL, no markdown character, no character outside word characters,
\* whitespace and . , ! ? ; : - ( ), and no run of two or more whitespace
\* characters
C26_CleanedText ==
    clean_run.done =>
        LET out == clean_run.output
        IN  /\ \A i \in 1..Len(out) : url_at(out, i) = 0
            /\ \A i \in 1..Len(out) : out[i] \notin {"#", "_"}
            /\ \A i \in 1..Len(out) : out[i] \in SpeechPieces
            /\ \A i \in 1..(Len(out) - 1) : ~(IsSpace(out[i]) /\ IsSpace(out[i + 1]))

\* ------------------------------------------------------------------------
\* Category selection: the request that is sent
\* ------------------------------------------------------------------------

\* the step is a call of analyze_articles_by_category that sent a request
SelectionRequestStep ==
    /\ analyze_run.calls = 0
    /\ analyze_run'.calls = 1
    /\ analyze_run'.result.generative_calls = 1

\* the limits of the profile that is active
ActiveLimits == analyzer_init(configure_for_model(SELECTED_MODEL))

\* C27: whenever the selector sends its request, the tokens of system prompt
\* plus user prompt are at most max_message_tokens, and these tokens plus the
\* output cap sent to the backend are at most max_context_tokens of the active
\* profile
C27_RequestWithinBudget ==
    [][SelectionRequestStep =>
          /\ analyze_run'.result.total_message_tokens <= analyzer.max_message_tokens
          /\ analyze_run'.result.total_message_tokens
                + chat_max_tokens(manager', analyze_run'.result.max_tokens)
                   <= ActiveLimits.max_context_tokens]_vars

\* the same for an analyzer whose limits are those of the active profile
RequestWithinBudgetOfBuiltProfile ==
    [][(SelectionRequestStep /\ BudgetTriple(analyzer) = BudgetTriple(ActiveLimits)) =>
          /\ analyze_run'.result.total_message_tokens <= ActiveLimits.max_message_tokens
          /\ analyze_run'.result.total_message_tokens
                + chat_max_tokens(manager', analyze_run'.result.max_tokens)
                   <= ActiveLimits.max_context_tokens]_vars

\* the words of a text as they stand: text.split()
WordsOf(text) == split_words(text)

\* the words of the chunks, read in chunk order
RECURSIVE ChunkWords(_)
ChunkWords(chunks) ==
    IF chunks = <<>> THEN <<>>
    ELSE WordsOf(chunks[1]) \o ChunkWords(SubSeq(chunks, 2, Len(chunks)))


\* a word without the periods at its end
RECURSIVE WithoutFinalPeriods(_)
WithoutFinalPeriods(word) ==
    IF word # <<>> /\ word[Len(word)] = Dot
    THEN WithoutFinalPeriods(SubSeq(word, 1, Len(word) - 1))
    ELSE word

\* the words of a sequence of words without the periods at their ends, the
\* words that are only periods left out
RECURSIVE SpokenWords(_)
SpokenWords(words) ==
    IF words = <<>> THEN <<>>
    ELSE (IF WithoutFinalPeriods(words[1]) = <<>> THEN <<>>
          ELSE <<WithoutFinalPeriods(words[1])>>)
            \o SpokenWords(SubSeq(words, 2, Len(words)))

\* the words of a chunk, the last one marked as standing at the chunk's end
AtChunkEnd(words) ==
    [i \in 1..Len(words) |-> [word |-> words[i], last |-> i = Len(words)]]

\* the readings of a chunk with a period added at its end: the words as they
\* stand, or without the last word when that is a period on its own
ChunkEndReadings(chunk) ==
    LET words == WordsOf(chunk)
    IN  {AtChunkEnd(words)} \cup
        (IF Len(words) > 1 /\ WithoutFinalPeriods(words[Len(words)]) = <<>>
         THEN {AtChunkEnd(SubSeq(words, 1, Len(words) - 1))}
         ELSE {})

\* the readings of a sequence of chunks
RECURSIVE ChunkReadings(_)
ChunkReadings(chunks) ==
    IF chunks = <<>> THEN {<<>>}
    ELSE {w \o r : w \in ChunkEndReadings(chunks[1]),
                   r \in ChunkReadings(SubSeq(chunks, 2, Len(chunks)))}

\* a reading of the chunks gives the words of the text: word for word, the
\* periods at the end of a chunk's last word apart
SameWords(reading, words) ==
    /\ Len(reading) = Len(words)
    /\ \A i \in 1..Len(words) :
          IF reading[i].last
          THEN WithoutFinalPeriods(reading[i].word) = WithoutFinalPeriods(words[i])
          ELSE reading[i].word = words[i]

\* the chunks hold the words of the text in the text's order once every period
\* at the end of a word and every word made of periods alone is set aside
WordsKeptUpToPeriods ==
    split_run.done =>
        SpokenWords(ChunkWords(split_run.chunks)) = SpokenWords(WordsOf(split_run.text))

\* split_long_text alone: the words of the chunks are the words of the text,
\* periods added at chunk ends apart
LongTextWordsKept ==
    (split_run.done /\ split_run.splitter = "openai") =>
        \E reading \in ChunkReadings(split_run.chunks) :
            SameWords(reading, WordsOf(split_run.text))

\* C28: for both splitters and every input text, the words of the returned
\* chunks read in order are the words of the input text, none lost, duplicated
\* or reordered, apart from the sentence-ending periods added at chunk ends
C28_ChunksKeepTheWords ==
    split_run.done =>
        \E reading \in ChunkReadings(split_run.chunks) :
            SameWords(reading, WordsOf(split_run.text))

\* the summaries a generative call that succeeded can return
GeneratedSummaries == GenOutcomes \ {"error"}

\* C29: after any sequence of enhance_articles runs every summary in the cache
\* was returned by a generative call that succeeded: neither the failure
\* placeholder nor a snippet is stored, and no article is served the placeholder
\* with enhancement_method = cache
C29_CacheHoldsGeneratedSummaries ==
    /\ \A r \in cache_rows : r.summary \in GeneratedSummaries
    /\ \A k \in 1..Len(enhance_run.output) :
          enhance_run.output[k].enhancement_method = "cache" =>
              enhance_run.output[k].summary \in GeneratedSummaries

\* the snippet of an article whose page could not be fetched is never stored
SnippetNeverCached ==
    \A r \in cache_rows : r.summary \notin {A0.snippet, A1.snippet, A2.snippet}

\* the URLs written anywhere in a response
UrlsWritten(text) == Range(text) \cap HttpUrls

\* the entries of the selection that stand for an article
EntriesOf(a) ==
    {k \in 1..Len(select_run.selected) :
        select_run.selected[k] = [a EXCEPT !.selected_for_podcast = TRUE]}

\* C30: for any model response the selection of _extract_selected_articles holds
\* only articles of the grouped input, each at most once even when its URL is
\* repeated in the response, none whose URL is not written in the response, and,
\* when a bulleted marker with a URL is present, none whose URL is written only
\* behind an un-bulleted marker
C30_SelectionWithinResponse ==
    select_run.done =>
        LET out == select_run.selected
            text == select_run.analysis_text
            grouped == Range(flatten(select_run.articles_by_category))
        IN  /\ \A k \in 1..Len(out) : \E a \in grouped : k \in EntriesOf(a)
            /\ \A a \in grouped : Cardinality(EntriesOf(a)) <= 1
            /\ \A k \in 1..Len(out) : out[k].url \in UrlsWritten(text)
            /\ UrlsAfterBulletedMarker(text) # {} =>
                  \A k \in 1..Len(out) : out[k].url \in UrlsAfterBulletedMarker(text)

\* a response that writes the URL of one of two given articles twice behind a
\* bulleted marker has been read, and the article is selected once
C30_Witness ==
    /\ select_run.done
    /\ Len(select_run.articles) >= 2
    /\ \E i, j \in 1..Len(select_run.analysis_text) :
          /\ i < j
          /\ select_run.analysis_text[i] \in HttpUrls
          /\ select_run.analysis_text[i] = select_run.analysis_text[j]
          /\ select_run.analysis_text[i] \in UrlsAfterBulletedMarker(select_run.analysis_text)
          /\ select_run.analysis_text[i] \in {a.url : a \in Range(select_run.articles)}
    /\ Len(select_run.selected) = 1

\* a response with one URL behind a bulleted marker and another behind an
\* un-bulleted one, both of given articles, has been read: one article selected
LegacyFormIgnored ==
    /\ select_run.done
    /\ UrlsAfterBulletedMarker(select_run.analysis_text) # {}
    /\ \E u \in UrlsAfterMarker(select_run.analysis_text) :
          /\ u \notin UrlsAfterBulletedMarker(select_run.analysis_text)
          /\ u \in {a.url : a \in Range(select_run.articles)}
    /\ UrlsAfterBulletedMarker(select_run.analysis_text)
          \subseteq {a.url : a \in Range(select_run.articles)}
    /\ Len(select_run.selected) = 1

============================================================================
